---- MODULE Spec2Model ----
(***************************************************************************)
(* Weighted council (validator set) of the istanbul consensus engine:      *)
(* consensus/istanbul/validator/weighted.go and the validation facade of   *)
(* the backend API.                                                        *)
(*                                                                         *)
(* Validators are heap objects (Go pointers): `heap` is the sequence of    *)
(* the live weightedValidator objects, a validator handle is an index into *)
(* it and Nil is the nil handle.  A weightedCouncil is a record of its     *)
(* fields; every method is an operator from (heap, council, arguments) to  *)
(* [h |-> heap', s |-> council', ret |-> return value].                    *)
(***************************************************************************)
EXTENDS Integers, Sequences, FiniteSets, TLC

VARIABLES
    heap,      \* the weightedValidator objects
    valSet,    \* the weightedCouncil under test
    other,     \* a second weightedCouncil (another node's), or NoCouncil
    last,      \* the last call: its name, arguments and return value
    replaced,  \* number of ReplaceValidators calls so far
    tally,     \* per address, how often CalcProposer chose it (SpecRounds)
    backing,   \* the array under valSet.validators and the slice List() returned
    validatorMu, \* valSet.validatorMu: the writer and the readers that hold it
    threads,   \* per thread, the method it runs and its position in it
    stateObject, \* the stateObject under test
    journal,   \* stateObject.db.journal: the entries appended so far
    db,        \* the Database: the committed tries and the contract codes
    snapshot,  \* the journal length at the snapshot and what the object showed then
    copied,    \* the object deepCopy returned and its StateDB's journal, if any
    chain      \* the head of the block chain the API reads

stateVars == <<stateObject, journal, db, snapshot, copied>>

vars == <<heap, valSet, other, last, replaced, tally, backing, validatorMu, threads, stateVars, chain>>

(* ------------------------------ bounds --------------------------------- *)
\* addresses of the life-cycle specifications are 1..MaxAddr, ordered as
\* the 20-byte values are
MaxAddr == 2
\* rounds passed to CalcProposer / SubListWithProposer are 0..MaxRound
MaxRound == 2
\* block numbers are 0..MaxBlock
MaxBlock == 1
\* ReplaceValidators is called at most MaxReplace times in a behaviour
MaxReplace == 1

\* largest council and largest committee size of the query specifications
MaxCouncil == 4
MaxSubSize == 3
\* number of Refresh rounds of the specification of two councils
MaxRefresh == 2
\* number of calls on a set and its copy
MaxCalls == 3
\* largest council and committee size of the specification of F
MaxSize == 7
\* largest number of council nodes in a staking information
MaxStakers == 3
\* largest number of the chain's current block
MaxHead == 52
\* number of storage keys and of contract codes, largest balance and nonce set
MaxKey == 1
MaxCode == 2
MaxBalance == 2
Addr == 1..MaxAddr
Rounds == 0..MaxRound
Blocks == 0..MaxBlock

(* ------------------------- basic values -------------------------------- *)
\* common.Address{} : the zero address
ZeroAddr == 0
\* the nil validator handle
Nil == 0
\* default voting power given by NewWeightedCouncil and AddValidator
DefaultVotingPower == 1000

emptyAddress(a) == a = ZeroAddr

\* the nil *reward.StakingInfo (what GetStakingInfo answers when it has none)
NoStakingInfo == [isNil |-> TRUE]

Range(seq) == {seq[i] : i \in 1..Len(seq)}

Count(seq, x) == Cardinality({i \in 1..Len(seq) : seq[i] = x})

\* the addresses of a sequence of validator handles (none of them nil)
Addresses(h, vals) == [i \in 1..Len(vals) |-> h[vals[i]].address]

(* ------------------------- weightedValidator --------------------------- *)
\* allocates a weightedValidator; ret is the new handle
newWeightedValidator(h, addr, reward, votingpower, weight) ==
    [h   |-> Append(h, [address |-> addr, rewardAddress |-> reward,
                        votingPower |-> votingpower, weight |-> weight]),
     ret |-> Len(h) + 1]

\* istanbul.Validators.Less: order by address
Less(h, v1, v2) == h[v1].address < h[v2].address

RECURSIVE insertSorted(_, _, _)
insertSorted(h, sorted, v) ==
    IF sorted = <<>> THEN <<v>>
    ELSE IF Less(h, v, Head(sorted)) THEN <<v>> \o sorted
    ELSE <<Head(sorted)>> \o insertSorted(h, Tail(sorted), v)

\* sort.Sort(valSet.validators): insertion sort (what sort.Sort runs on
\* slices shorter than 12), equal addresses keep their order
RECURSIVE sortValidators(_, _)
sortValidators(h, vals) ==
    IF vals = <<>> THEN <<>>
    ELSE insertSorted(h, sortValidators(h, SubSeq(vals, 1, Len(vals) - 1)),
                      vals[Len(vals)])

(* --------------------------- weightedCouncil --------------------------- *)
Size(s) == Len(s.validators)

\* (index, validator) of the first validator with the address; Go indexes
\* from 0 and answers (-1, nil) when there is none
getByAddress(h, s, addr) ==
    LET hits == {i \in 1..Len(s.validators) : h[s.validators[i]].address = addr}
    IN  IF hits = {} THEN [idx |-> -1, val |-> Nil]
        ELSE LET i == CHOOSE j \in hits : \A k \in hits : j <= k
             IN  [idx |-> i - 1, val |-> s.validators[i]]

GetByIndex(s, i) == IF i < Len(s.validators) THEN s.validators[i + 1] ELSE Nil

\* the proposer update interval of the chain parameters
ProposerUpdateInterval == 2

\* params.CalcProposerBlockNumber: the largest multiple of the proposer
\* update interval that does not exceed n - 1
CalcProposerBlockNumber(n) ==
    IF n % ProposerUpdateInterval = 0 THEN n - ProposerUpdateInterval
    ELSE n - (n % ProposerUpdateInterval)

\* pickerOf that forgets the block number
pickerOf_roundOnly(s, round) == round % Len(s.proposers)

\* the index into proposers (from 0) that weightedRandomProposer reads
pickerOf(s, round) ==
    (s.blockNum + round - CalcProposerBlockNumber(s.blockNum + 1)) % Len(s.proposers)

\* the selector of a weighted council; Nil when there is no proposer to pick
weightedRandomProposer(h, s, lastProposer, round) ==
    IF Len(s.proposers) = 0 THEN Nil
    ELSE s.proposers[pickerOf(s, round) + 1]

\* chooseProposerByRoundRobin that counts the round from the first validator
\* whatever lastProposer is
chooseProposerByRoundRobin_roundOnly(h, s, lastProposer, round) ==
    s.validators[(round % Len(s.validators)) + 1]

\* chooseProposerByRoundRobin that counts on from the current proposer
\* instead of lastProposer
chooseProposerByRoundRobin_fromCurrent(h, s, lastProposer, round) ==
    LET found  == IF s.proposer = Nil THEN [idx |-> -1, val |-> Nil]
                  ELSE getByAddress(h, s, h[s.proposer].address)
        offset == IF found.val # Nil THEN found.idx ELSE 0
        seed   == IF emptyAddress(lastProposer) THEN round ELSE offset + round
        pick   == seed % Len(s.validators)
    IN  s.validators[pick + 1]

chooseProposerByRoundRobin(h, s, lastProposer, round) ==
    LET found  == getByAddress(h, s, lastProposer)
        offset == IF found.val # Nil THEN found.idx ELSE 0
        seed   == IF emptyAddress(lastProposer) THEN round ELSE offset + round
        pick   == seed % Len(s.validators)
    IN  s.validators[pick + 1]

NewWeightedCouncil(addrs, rewards, votingPowers, weights, committeeSize, blockNum, proposersBlockNum) ==
    LET n      == Len(addrs)
        objs   == [i \in 1..n |-> [address |-> addrs[i], rewardAddress |-> rewards[i],
                                   votingPower |-> votingPowers[i], weight |-> weights[i]]]
        sorted == sortValidators(objs, [i \in 1..n |-> i])
    IN  [h |-> objs,
         s |-> [subSize           |-> committeeSize,
                validators        |-> sorted,
                proposer          |-> IF n > 0 THEN sorted[1] ELSE Nil,
                proposers         |-> sorted,
                proposersBlockNum |-> proposersBlockNum,
                stakingInfo       |-> NoStakingInfo,
                blockNum          |-> blockNum]]

CalcProposer(h, s, lastProposer, round) ==
    LET selected == weightedRandomProposer(h, s, lastProposer, round)
    IN  IF selected # Nil
        THEN [h |-> h, s |-> [s EXCEPT !.proposer = selected]]
        ELSE IF Len(s.validators) = 0
        THEN LET n == newWeightedValidator(h, lastProposer, ZeroAddr, 0, 0)
             IN  [h |-> n.h, s |-> [s EXCEPT !.proposer = n.ret]]
        ELSE [h |-> h,
              s |-> [s EXCEPT !.proposer = chooseProposerByRoundRobin(h, s, lastProposer, round)]]

\* AddValidator without the sort: the new validator stays at the end
AddValidator_unsorted(h, s, address) ==
    IF \E i \in 1..Len(s.validators) : h[s.validators[i]].address = address
    THEN [h |-> h, s |-> s, ret |-> FALSE]
    ELSE LET n == newWeightedValidator(h, address, ZeroAddr, DefaultVotingPower, 0)
         IN  [h   |-> n.h,
              s   |-> [s EXCEPT !.validators = Append(s.validators, n.ret)],
              ret |-> TRUE]

AddValidator(h, s, address) ==
    IF \E i \in 1..Len(s.validators) : h[s.validators[i]].address = address
    THEN [h |-> h, s |-> s, ret |-> FALSE]
    ELSE LET n == newWeightedValidator(h, address, ZeroAddr, DefaultVotingPower, 0)
         IN  [h   |-> n.h,
              s   |-> [s EXCEPT !.validators = sortValidators(n.h, Append(s.validators, n.ret))],
              ret |-> TRUE]

removeValidatorFromProposers(h, s, address) ==
    [s EXCEPT !.proposers = SelectSeq(s.proposers, LAMBDA v : h[v].address # address)]

\* RemoveValidator that takes the validator out of proposers only
RemoveValidator_proposersOnly(h, s, address) ==
    LET found == getByAddress(h, s, address)
    IN  IF found.val = Nil THEN [h |-> h, s |-> s, ret |-> FALSE]
        ELSE [h |-> h, s |-> removeValidatorFromProposers(h, s, address), ret |-> TRUE]

RemoveValidator(h, s, address) ==
    LET found == getByAddress(h, s, address)
    IN  IF found.val = Nil THEN [h |-> h, s |-> s, ret |-> FALSE]
        ELSE LET i   == found.idx + 1
                 cut == [s EXCEPT !.validators = SubSeq(s.validators, 1, i - 1)
                                                 \o SubSeq(s.validators, i + 1, Len(s.validators))]
             IN  [h |-> h, s |-> removeValidatorFromProposers(h, cut, address), ret |-> TRUE]

ReplaceValidators(h, s, vals) ==
    [h |-> h, s |-> [s EXCEPT !.validators = vals], ret |-> TRUE]

\* SetSubGroupSize(size)
SetSubGroupSize(s, size) == [s EXCEPT !.subSize = size]

\* math.Ceil(float64(n) / 3) as an integer (n is far below 2^53, where the
\* conversion and the division by 3 round to the next float above or below)
ceilOfThird(n) == IF n % 3 = 0 THEN n \div 3 ELSE (n \div 3) + 1

\* F that always takes the size of the council
F_ofSize(s) == ceilOfThird(Size(s)) - 1

F(s) ==
    IF Size(s) > s.subSize THEN ceilOfThird(s.subSize) - 1
    ELSE ceilOfThird(Size(s)) - 1

(* ------------------------------- Refresh ------------------------------- *)
\* number of hex digits of common.Hash.Hex() after the 0x prefix
HashHexLen == 64
\* number of leading hex digits that Refresh and SubListWithProposer parse
SeedHexLen == 15

\* hashString[:15] when the string is longer than 15 digits
seedDigits(hash) == IF Len(hash) > SeedHexLen THEN SubSeq(hash, 1, SeedHexLen) ELSE hash

\* strconv.ParseInt(hashString, 16, 64) of a string of hex digits
RECURSIVE parseHex(_)
parseHex(digits) ==
    IF digits = <<>> THEN 0
    ELSE 16 * parseHex(SubSeq(digits, 1, Len(digits) - 1)) + digits[Len(digits)]

seedOf(hash) == parseHex(seedDigits(hash))

\* rand.New(rand.NewSource(seed)) and picker.Intn(n).  The generator of
\* math/rand is outside the repository; it is represented by the Lehmer
\* stream x' = RngMultiplier * x mod RngModulus, which like the library's is
\* a deterministic function of the seed alone.
RngModulus == 65537
RngMultiplier == 75
RngZeroSeed == 89
newSource(seed) ==
    LET x == seed % RngModulus IN IF x = 0 THEN RngZeroSeed ELSE x
rngStep(x) == (RngMultiplier * x) % RngModulus
Intn(x, n) == x % n

\* shuffleStep with the swap broken: position i takes the picked element,
\* which stays where it was
shuffleStep_overwrite(st) ==
    LET y == (RngMultiplier * st.x) % RngModulus
        r == (y % Len(st.idxs)) + 1
    IN  [idxs |-> [st.idxs EXCEPT ![st.i] = st.idxs[r]], i |-> st.i + 1, x |-> y]

\* one pass of the body of  for i := 0; i < limit; i++ { randIndex :=
\* picker.Intn(limit); swap(i, randIndex) }  at position st.i (from 1) with
\* generator state st.x
shuffleStep(st) ==
    LET y == rngStep(st.x)
        r == Intn(y, Len(st.idxs)) + 1
    IN  [idxs |-> [st.idxs EXCEPT ![st.i] = st.idxs[r], ![r] = st.idxs[st.i]],
         i    |-> st.i + 1,
         x    |-> y]

\* the loop from state st on, for at most n passes: it runs while
\* i < limit (evaluated in two halves, which keeps the nesting of the
\* evaluation logarithmic in n)
RECURSIVE shuffleLoop(_, _)
shuffleLoop(st, n) ==
    IF st.i > Len(st.idxs) \/ n = 0 THEN st
    ELSE IF n = 1 THEN shuffleStep(st)
    ELSE shuffleLoop(shuffleLoop(st, n \div 2), n - (n \div 2))

\* the slice after the loop (SubSeq hands the loop the slice as an
\* explicit sequence of its elements)
shuffle(idxs, seed) ==
    shuffleLoop([idxs |-> SubSeq(idxs, 1, Len(idxs)), i |-> 1, x |-> newSource(seed)],
                Len(idxs)).idxs

\* reward.StakingInfo.GetIndexByNodeAddress: index (from 1) of the council
\* node with the address, 0 when there is none
GetIndexByNodeAddress(info, addr) ==
    LET hits == {i \in 1..Len(info.CouncilNodeAddrs) : info.CouncilNodeAddrs[i] = addr}
    IN  IF hits = {} THEN 0 ELSE CHOOSE j \in hits : \A k \in hits : j <= k

\* first loop of getStakingAmountsOfValidators, validators vIdx..: sets the
\* reward addresses and collects the amounts of the validators' own entries
RECURSIVE attributeOwn(_, _, _, _)
attributeOwn(h, vals, info, vIdx) ==
    IF vIdx > Len(vals) THEN [h |-> h, amounts |-> <<>>]
    ELSE LET v    == vals[vIdx]
             sIdx == GetIndexByNodeAddress(info, h[v].address)
             h1   == IF sIdx # 0
                     THEN [h EXCEPT ![v].rewardAddress = info.CouncilRewardAddrs[sIdx]]
                     ELSE [h EXCEPT ![v].rewardAddress = ZeroAddr]
             rest == attributeOwn(h1, vals, info, vIdx + 1)
         IN  [h |-> rest.h,
              amounts |-> <<IF sIdx # 0 THEN info.CouncilStakingAmounts[sIdx] ELSE 0>>
                          \o rest.amounts]

\* the second loop without the break: an entry no validator owns goes to
\* every validator with its reward address
RECURSIVE foldUnattributed_toAll(_, _, _, _, _)
foldUnattributed_toAll(h, vals, info, amounts, sIdx) ==
    IF sIdx > Len(info.CouncilNodeAddrs) THEN amounts
    ELSE LET isAdded == \E v \in 1..Len(vals) :
                           GetIndexByNodeAddress(info, h[vals[v]].address) = sIdx
             next    == [v \in 1..Len(amounts) |->
                           IF ~isAdded /\ h[vals[v]].rewardAddress = info.CouncilRewardAddrs[sIdx]
                           THEN amounts[v] + info.CouncilStakingAmounts[sIdx]
                           ELSE amounts[v]]
         IN  foldUnattributed_toAll(h, vals, info, next, sIdx + 1)

\* second loop of getStakingAmountsOfValidators, staking entries sIdx..: an
\* entry no validator owns goes to the first validator with its reward address
RECURSIVE foldUnattributed(_, _, _, _, _)
foldUnattributed(h, vals, info, amounts, sIdx) ==
    IF sIdx > Len(info.CouncilNodeAddrs) THEN amounts
    ELSE LET isAdded == \E v \in 1..Len(vals) :
                           GetIndexByNodeAddress(info, h[vals[v]].address) = sIdx
             sharing == {v \in 1..Len(vals) :
                           h[vals[v]].rewardAddress = info.CouncilRewardAddrs[sIdx]}
             first   == CHOOSE v \in sharing : \A w \in sharing : v <= w
             next    == IF isAdded \/ sharing = {} THEN amounts
                        ELSE [amounts EXCEPT ![first] = @ + info.CouncilStakingAmounts[sIdx]]
         IN  foldUnattributed(h, vals, info, next, sIdx + 1)

getStakingAmountsOfValidators(h, s, info) ==
    LET own == attributeOwn(h, s.validators, info, 1)
    IN  [h |-> own.h,
         amounts |-> foldUnattributed(own.h, s.validators, info, own.amounts, 1)]

RECURSIVE sumSeq(_)
sumSeq(seq) == IF seq = <<>> THEN 0 ELSE Head(seq) + sumSeq(Tail(seq))

\* calcTotalAmount for staking information that does not use the Gini
\* coefficient (the staking informations of this model never do)
calcTotalAmount(info, stakingAmounts) ==
    IF Len(info.CouncilNodeAddrs) = 0 THEN 0 ELSE sumSeq(stakingAmounts)

\* the percentage base of calcWeight
WeightBase == 100

\* amount * 100 / total cut off instead of rounded
roundedShare_truncated(amount, total) == (amount * WeightBase) \div total

\* math.Round(amount * 100 / total) for non-negative integers, half away from 0
roundedShare(amount, total) == (2 * amount * WeightBase + total) \div (2 * total)

\* the weight calcWeight gives a validator with this amount
weightOf(amount, totalStaking) ==
    IF totalStaking > 0
    THEN LET weight == roundedShare(amount, totalStaking)
         IN  IF weight <= 0 THEN 1 ELSE weight
    ELSE 0

\* calcWeight that leaves the weights alone when nothing is staked
RECURSIVE calcWeight_stakedOnly(_, _, _, _, _)
calcWeight_stakedOnly(h, vals, stakingAmounts, totalStaking, vIdx) ==
    IF vIdx > Len(vals) THEN h
    ELSE calcWeight_stakedOnly(
             [h EXCEPT ![vals[vIdx]].weight =
                 IF totalStaking > 0 THEN weightOf(stakingAmounts[vIdx], totalStaking) ELSE @],
             vals, stakingAmounts, totalStaking, vIdx + 1)

\* calcWeight: stores the weights, validator by validator (from vIdx on)
RECURSIVE calcWeight(_, _, _, _, _)
calcWeight(h, vals, stakingAmounts, totalStaking, vIdx) ==
    IF vIdx > Len(vals) THEN h
    ELSE calcWeight([h EXCEPT ![vals[vIdx]].weight = weightOf(stakingAmounts[vIdx], totalStaking)],
                    vals, stakingAmounts, totalStaking, vIdx + 1)

\* candidateValsIdx that holds every validator of positive weight once
candidates_unweighted(h, vals, vIdx) ==
    SelectSeq([i \in 1..Len(vals) |-> i], LAMBDA i : i >= vIdx /\ h[vals[i]].weight > 0)

\* candidateValsIdx of refreshProposers: index (from 1) of every validator
\* from vIdx on, repeated weight times
RECURSIVE candidates(_, _, _)
candidates(h, vals, vIdx) ==
    IF vIdx > Len(vals) THEN <<>>
    ELSE [i \in 1..h[vals[vIdx]].weight |-> vIdx] \o candidates(h, vals, vIdx + 1)

\* refreshProposers that does not store the block number
refreshProposers_noBlockNum(h, s, seed, blockNum) ==
    LET weighted == candidates(h, s.validators, 1)
        candidateValsIdx == IF Len(weighted) = 0
                            THEN [i \in 1..Len(s.validators) |-> i]
                            ELSE weighted
        shuffled == shuffle(candidateValsIdx, seed)
    IN  [s EXCEPT !.proposers = [i \in 1..Len(shuffled) |-> s.validators[shuffled[i]]]]

refreshProposers(h, s, seed, blockNum) ==
    LET weighted == candidates(h, s.validators, 1)
        candidateValsIdx == IF Len(weighted) = 0
                            THEN [i \in 1..Len(s.validators) |-> i]
                            ELSE weighted
        shuffled == shuffle(candidateValsIdx, seed)
    IN  [s EXCEPT !.proposers = [i \in 1..Len(shuffled) |-> s.validators[shuffled[i]]],
                  !.proposersBlockNum = blockNum]

ErrNoValidator == "No validator"
ErrSkipRefresh == "skip refreshing proposers due to no staking info"
NoError == "nil"

\* Refresh that shuffles the proposers anew also without staking information
Refresh_shufflesAnyway(h, s, hash, blockNum, newStakingInfo) ==
    IF s.proposersBlockNum = blockNum THEN [h |-> h, s |-> s, ret |-> NoError]
    ELSE IF Len(s.validators) = 0 THEN [h |-> h, s |-> s, ret |-> ErrNoValidator]
    ELSE LET seed == seedOf(hash)
             s1   == [s EXCEPT !.stakingInfo = newStakingInfo]
         IN  IF newStakingInfo = NoStakingInfo
             THEN [h |-> h, s |-> refreshProposers(h, s1, seed, blockNum), ret |-> ErrSkipRefresh]
             ELSE LET staked == getStakingAmountsOfValidators(h, s1, newStakingInfo)
                      totalStaking == calcTotalAmount(newStakingInfo, staked.amounts)
                      h2 == calcWeight(staked.h, s1.validators, staked.amounts, totalStaking, 1)
                  IN  [h |-> h2, s |-> refreshProposers(h2, s1, seed, blockNum), ret |-> NoError]

\* Refresh without the return for a council that is at blockNum already
Refresh_always(h, s, hash, blockNum, newStakingInfo) ==
    IF Len(s.validators) = 0 THEN [h |-> h, s |-> s, ret |-> ErrNoValidator]
    ELSE LET seed == seedOf(hash)
             s1   == [s EXCEPT !.stakingInfo = newStakingInfo]
         IN  IF newStakingInfo = NoStakingInfo
             THEN [h |-> h, s |-> s1, ret |-> ErrSkipRefresh]
             ELSE LET staked == getStakingAmountsOfValidators(h, s1, newStakingInfo)
                      totalStaking == calcTotalAmount(newStakingInfo, staked.amounts)
                      h2 == calcWeight(staked.h, s1.validators, staked.amounts, totalStaking, 1)
                  IN  [h |-> h2, s |-> refreshProposers(h2, s1, seed, blockNum), ret |-> NoError]

\* Refresh(hash, blockNum); newStakingInfo is what reward.GetStakingInfo
\* answers for blockNum + 1
Refresh(h, s, hash, blockNum, newStakingInfo) ==
    IF s.proposersBlockNum = blockNum THEN [h |-> h, s |-> s, ret |-> NoError]
    ELSE IF Len(s.validators) = 0 THEN [h |-> h, s |-> s, ret |-> ErrNoValidator]
    ELSE LET seed == seedOf(hash)
             s1   == [s EXCEPT !.stakingInfo = newStakingInfo]
         IN  IF newStakingInfo = NoStakingInfo
             THEN [h |-> h, s |-> s1, ret |-> ErrSkipRefresh]
             ELSE LET staked == getStakingAmountsOfValidators(h, s1, newStakingInfo)
                      totalStaking == calcTotalAmount(newStakingInfo, staked.amounts)
                      h2 == calcWeight(staked.h, s1.validators, staked.amounts, totalStaking, 1)
                  IN  [h |-> h2, s |-> refreshProposers(h2, s1, seed, blockNum), ret |-> NoError]

(* ------------------------- SubListWithProposer ------------------------- *)
\* how a call ends: it returns a list, it panics (index out of range, nil
\* dereference), or it never returns
Returned(list) == [kind |-> "ok", list |-> list]
Panicked == [kind |-> "panic", list |-> <<>>]
Hangs == [kind |-> "hang", list |-> <<>>]

\* the loop  for committee[1] == nil { .. nextProposerIdx += 1 }  from
\* nextProposerIdx on.  The selector reads proposers[(c + nextProposerIdx) %
\* len(proposers)], so len(proposers) iterations in a row show every entry of
\* proposers: when none of them has another address than the proposer, no
\* later iteration has one either and the loop does not end.
RECURSIVE searchNextProposer(_, _, _, _, _)
searchNextProposer(h, s, proposer, round, nextProposerIdx) ==
    IF Len(s.proposers) = 0 THEN Panicked
    ELSE IF nextProposerIdx > Len(s.proposers) THEN Hangs
    ELSE LET nextProposer == weightedRandomProposer(h, s, proposer, round + nextProposerIdx)
         IN  IF h[nextProposer].address # proposer
             THEN Returned(<<nextProposer>>)
             ELSE searchNextProposer(h, s, proposer, round, nextProposerIdx + 1)

\* otherIndexes without the filter: the first limit - 2 indices
otherIndexes_unfiltered(limit, proposerIdx, nextproposerIdx, i) ==
    [j \in 1..(limit - 2) |-> j - 1]

\* indexs before the shuffle: the indices (from 0) of the validators other
\* than proposerIdx and nextproposerIdx, in order
RECURSIVE otherIndexes(_, _, _, _)
otherIndexes(limit, proposerIdx, nextproposerIdx, i) ==
    IF i >= limit THEN <<>>
    ELSE (IF i # proposerIdx /\ i # nextproposerIdx THEN <<i>> ELSE <<>>)
         \o otherIndexes(limit, proposerIdx, nextproposerIdx, i + 1)

SubListWithProposer(h, s, prevHash, proposer, round) ==
    IF Len(s.validators) <= s.subSize THEN Returned(s.validators)
    ELSE LET seed == seedOf(prevHash)
             proposerValidator == getByAddress(h, s, proposer).val
         IN
         IF proposerValidator = Nil THEN Returned(s.validators)
         ELSE IF s.subSize = 0 THEN Panicked    \* committee[0] of an empty slice
         ELSE IF s.subSize = 1 THEN Returned(<<proposerValidator>>)
         ELSE LET next == searchNextProposer(h, s, proposer, round, 1)
              IN
              IF next.kind # "ok" THEN next
              ELSE LET nextProposer    == next.list[1]
                       proposerIdx     == getByAddress(h, s, h[proposerValidator].address).idx
                       nextproposerIdx == getByAddress(h, s, h[nextProposer].address).idx
                       limit    == Len(s.validators)
                       pickSize == limit - 2
                       indexs   == otherIndexes(limit, proposerIdx, nextproposerIdx, 0)
                   IN
                   \* indexs has pickSize slots: a further index does not fit
                   IF Len(indexs) > pickSize THEN Panicked
                   ELSE LET shuffled == shuffle(indexs, seed)
                        IN  Returned(<<proposerValidator, nextProposer>>
                                     \o [i \in 1..(s.subSize - 2) |-> s.validators[shuffled[i] + 1]])

\* Copy: a new council with the same field values and new slices holding the
\* same validator handles
Copy(s) ==
    [subSize           |-> s.subSize,
     validators        |-> [i \in 1..Len(s.validators) |-> s.validators[i]],
     proposer          |-> s.proposer,
     proposers         |-> [i \in 1..Len(s.proposers) |-> s.proposers[i]],
     proposersBlockNum |-> s.proposersBlockNum,
     stakingInfo       |-> s.stakingInfo,
     blockNum          |-> s.blockNum]

(* ------------------------ ValidateConsensusInfo ------------------------ *)
Reverse(seq) == [i \in 1..Len(seq) |-> seq[Len(seq) + 1 - i]]

RECURSIVE insertAddr(_, _)
insertAddr(sorted, a) ==
    IF sorted = <<>> THEN <<a>>
    ELSE IF a < Head(sorted) THEN <<a>> \o sorted
    ELSE <<Head(sorted)>> \o insertAddr(Tail(sorted), a)

RECURSIVE sortAddrs(_)
sortAddrs(addrs) ==
    IF addrs = <<>> THEN <<>>
    ELSE insertAddr(sortAddrs(SubSeq(addrs, 1, Len(addrs) - 1)), addrs[Len(addrs)])

\* committeeAddrsOf with the sort of the addresses switched on
committeeAddrsOf_sorted(h, committee) == sortAddrs(Addresses(h, committee))

\* committeeAddrs: the addresses of the committee, in the committee's order
committeeAddrsOf(h, committee) == Addresses(h, committee)

\* sealErr that asks the seals to be the committee's, in the committee's order
sealErrOf_inOrder(committeeAddrs, committedSeal) ==
    \E i \in 1..Len(committedSeal) :
        i > Len(committeeAddrs) \/ committedSeal[i] # committeeAddrs[i]

\* sealErr after the loop over the committed seals: some recovered address
\* was not found among committeeAddrs
sealErrOf(committeeAddrs, committedSeal) ==
    \E i \in 1..Len(committedSeal) : committedSeal[i] \notin Range(committeeAddrs)

\* what ValidateConsensusInfo reads of a block: its number, the round and the
\* parent hash of its header, the signer ecrecover finds for the header, the
\* validators of the header's extra data and the signers of its committed seals
BlockOf(number, round, parentHash, signer, validators, committedSeal) ==
    [number |-> number, round |-> round, parentHash |-> parentHash, signer |-> signer,
     validators |-> validators, committedSeal |-> committedSeal]

\* ValidationResult{}; returned tells whether the call came back at all
EmptyResult ==
    [returned |-> TRUE, BlockNumber |-> 0, Round |-> 0,
     ProposerFromBlock |-> ZeroAddr, Proposer |-> ZeroAddr, IsValidProposer |-> FALSE,
     Committee |-> <<>>, CommitteeSealedFromBlock |-> <<>>, CommitteeFromBlock |-> <<>>,
     IsValidCommittee |-> FALSE, IsValidSeal |-> FALSE]

\* ValidateConsensusInfo(block); snap is the validator set of the parent's
\* snapshot and lastProposer what GetProposer(blockNumber - 1) answers
ValidateConsensusInfo(h, snap, lastProposer, block) ==
    IF block.number = 0 THEN EmptyResult
    ELSE LET calc      == CalcProposer(h, Copy(snap), lastProposer, block.round)
             Proposer  == calc.h[calc.s.proposer].address
             committee == SubListWithProposer(h, snap, block.parentHash, Proposer, block.round)
         IN  IF committee.kind # "ok" THEN [EmptyResult EXCEPT !.returned = FALSE]
             ELSE LET committeeAddrs == committeeAddrsOf(h, committee.list)
                      sealErr == sealErrOf(committeeAddrs, block.committedSeal)
                  IN  [returned                 |-> TRUE,
                       BlockNumber              |-> block.number,
                       Round                    |-> block.round,
                       ProposerFromBlock        |-> block.signer,
                       Proposer                 |-> Proposer,
                       IsValidProposer          |-> block.signer = Proposer,
                       Committee                |-> committeeAddrs,
                       CommitteeSealedFromBlock |-> block.committedSeal,
                       CommitteeFromBlock       |-> block.validators,
                       IsValidCommittee         |-> committeeAddrs = block.validators,
                       IsValidSeal              |-> ~sealErr]

(* ------------------------------ actions -------------------------------- *)
\* no second council
NoCouncil == [subSize |-> 0, validators |-> <<>>, proposer |-> Nil, proposers |-> <<>>,
              proposersBlockNum |-> 0, stakingInfo |-> NoStakingInfo, blockNum |-> 0]

\* Go's garbage collector: validator objects that no field refers to are
\* dropped.  The remaining handles are renumbered in the order in which the
\* councils' validators, proposers and proposer first mention them (handles
\* are opaque: only their equality is observable).
roots(s) == s.proposers \o (IF s.proposer = Nil THEN <<>> ELSE <<s.proposer>>)

firstAt(seq, v) ==
    LET at == {i \in 1..Len(seq) : seq[i] = v}
    IN  CHOOSE i \in at : \A j \in at : i <= j

collect(h, s, o) ==
    LET vals  == s.validators \o o.validators
        all   == vals \o roots(s) \o roots(o)
        L     == Range(all)
        V     == Range(vals)
        at(v) == IF v \in V THEN firstAt(vals, v) ELSE firstAt(all, v)
        order == SortSeq(SelectSeq([v \in 1..Len(h) |-> v], LAMBDA v : v \in L),
                         LAMBDA v, w : at(v) < at(w))
        rename(v) == IF v = Nil THEN Nil ELSE CHOOSE i \in 1..Len(order) : order[i] = v
        moved(c)  == [c EXCEPT !.validators = [i \in 1..Len(c.validators) |-> rename(c.validators[i])],
                               !.proposers  = [i \in 1..Len(c.proposers) |-> rename(c.proposers[i])],
                               !.proposer   = rename(c.proposer)]
    IN  [h |-> [i \in 1..Len(order) |-> h[order[i]]],
         s |-> moved(s),
         o |-> moved(o)]

\* a hash whose hex digits are all 0 but the 15th and the last one
hashOf(d15, dLast) ==
    [i \in 1..HashHexLen |-> IF i = SeedHexLen THEN d15 ELSE IF i = HashHexLen THEN dLast ELSE 0]

\* 0x00..01 (seed 0) and a hash with seed 1
Hashes == {hashOf(0, 1), hashOf(1, 0)}

\* a staking information without council nodes
EmptyStakingInfo ==
    [isNil |-> FALSE, CouncilNodeAddrs |-> <<>>, CouncilRewardAddrs |-> <<>>,
     CouncilStakingAmounts |-> <<>>, UseGini |-> FALSE]

\* what reward.GetStakingInfo can answer when nobody stakes: nothing, or a
\* staking information without council nodes
UnstakedInfos == {NoStakingInfo, EmptyStakingInfo}

\* ... and with stakes: nodes 1 and 2 stake, and a third contract (node 9,
\* no validator) pays into the reward address of node 2
StakedInfos ==
    { [isNil |-> FALSE, CouncilNodeAddrs |-> <<1, 2, 9>>, CouncilRewardAddrs |-> <<11, 12, 12>>,
       CouncilStakingAmounts |-> <<1, 2, 1>>, UseGini |-> FALSE] }

\* ... and with contracts of no validator: nodes 1 and 2 share the reward
\* address 11, into which node 8 pays too; node 9 pays into an address no
\* validator has, node 7 into the zero address
FoldedInfos ==
    { [isNil |-> FALSE, CouncilNodeAddrs |-> <<1, 2, 8, 9, 7>>,
       CouncilRewardAddrs |-> <<11, 11, 11, 13, ZeroAddr>>,
       CouncilStakingAmounts |-> <<1, 2, 4, 8, 16>>, UseGini |-> FALSE] }

DescendingAddrs(n) == [i \in 1..n |-> n + 1 - i]

\* NewWeightedCouncil for the addresses n, n-1, .., 1 with nil rewards and
\* voting powers, and with weights nil or given
newCouncil(n, withWeights, committeeSize, blockNum, proposersBlockNum) ==
    LET addrs == DescendingAddrs(n)
    IN  NewWeightedCouncil(addrs,
                           [i \in 1..n |-> ZeroAddr],
                           [i \in 1..n |-> DefaultVotingPower],
                           [i \in 1..n |-> IF withWeights THEN addrs[i] ELSE 0],
                           committeeSize, blockNum, proposersBlockNum)

\* lists a caller passes to ReplaceValidators: none, the validators in
\* reverse order, the first validator twice
ReplaceLists(s) ==
    LET vals == s.validators
        n == Len(vals)
    IN  {<<>>, [i \in 1..n |-> vals[n + 1 - i]]} \cup (IF n = 0 THEN {} ELSE {<<vals[1], vals[1]>>})

NoTally == [a \in {} |-> 0]

\* the slices of the council are not followed
NoBacking == [array |-> <<>>, listed |-> <<>>]

\* nobody holds validatorMu (thread identifiers are positive)
Unlocked == [writer |-> 0, readers |-> {}]

\* the calls of the specification come one after the other
NoThreads == <<>>

\* no state object, journal, database, snapshot, copy or chain
NoState == <<>>
WithoutState ==
    /\ stateObject = NoState
    /\ journal = NoState
    /\ db = NoState
    /\ snapshot = NoState
    /\ copied = NoState
    /\ chain = NoState

\* no call recorded
NoCall == [op |-> "none"]

Init ==
    \E n \in 0..MaxAddr, withWeights \in BOOLEAN :
        LET c == newCouncil(n, withWeights, 1, MaxBlock, 0)
        IN  /\ heap = c.h
            /\ valSet = c.s
            /\ other = NoCouncil
            /\ last = NoCall
            /\ replaced = 0
            /\ tally = NoTally
            /\ backing = NoBacking
            /\ validatorMu = Unlocked
            /\ threads = NoThreads
            /\ WithoutState

\* the call returns: the council under test is updated
Return(r) ==
    LET c == collect(r.h, r.s, other)
    IN  /\ heap' = c.h
        /\ valSet' = c.s
        /\ other' = c.o
        /\ UNCHANGED <<last, tally, backing, validatorMu, threads, stateVars, chain>>

DoCalcProposer ==
    \E lastProposer \in Addr \cup {ZeroAddr}, round \in Rounds :
        /\ Return(CalcProposer(heap, valSet, lastProposer, round))
        /\ UNCHANGED replaced

DoAddValidator ==
    \E address \in Addr :
        /\ Return(AddValidator(heap, valSet, address))
        /\ UNCHANGED replaced

DoRemoveValidator ==
    \E address \in Addr :
        /\ Return(RemoveValidator(heap, valSet, address))
        /\ UNCHANGED replaced

DoReplaceValidators ==
    /\ replaced < MaxReplace
    /\ replaced' = replaced + 1
    /\ \E vals \in ReplaceLists(valSet) :
        Return(ReplaceValidators(heap, valSet, vals))

\* Refresh(hash, blockNum) when reward.GetStakingInfo answers one of infos
DoRefresh(infos) ==
    \E hash \in Hashes, blockNum \in Blocks, info \in infos :
        /\ Return(Refresh(heap, valSet, hash, blockNum, info))
        /\ UNCHANGED replaced

Next ==
    \/ DoCalcProposer
    \/ DoAddValidator
    \/ DoRemoveValidator
    \/ DoReplaceValidators
    \/ DoRefresh(UnstakedInfos)

Spec == Init /\ [][Next]_vars

NextStaked ==
    \/ DoAddValidator
    \/ DoRemoveValidator
    \/ DoRefresh(UnstakedInfos \cup StakedInfos)

SpecStaked == Init /\ [][NextStaked]_vars

(* ------------------------------- queries ------------------------------- *)
\* the council a call sequence ends with
settled(r) == LET c == collect(r.h, r.s, NoCouncil) IN [h |-> c.h, s |-> c.s]

\* AddValidator(a), AddValidator(a + 1), .., AddValidator(n) on council c
RECURSIVE addUpTo(_, _, _)
addUpTo(c, a, n) ==
    IF a > n THEN c ELSE addUpTo(AddValidator(c.h, c.s, a), a + 1, n)

\* councils of n validators and committee size k as short call sequences
\* leave them: newly constructed; refreshed without stakes (proposers
\* shuffled); grown from one validator by AddValidator (proposers holds the
\* first validator only); the same after RemoveValidator of the first (no
\* proposers); after ReplaceValidators by the list without its first element
\* (a proposer that is no validator), and by the list with its first element
\* twice
QueryCouncilsOf(n, k) ==
    LET fresh   == newCouncil(n, FALSE, k, MaxBlock, 0)
        grown   == addUpTo(newCouncil(1, FALSE, k, MaxBlock, 0), 2, n)
        vacated == RemoveValidator(grown.h, grown.s, 1)
        stale   == ReplaceValidators(fresh.h, fresh.s, Tail(fresh.s.validators))
        doubled == ReplaceValidators(fresh.h, fresh.s,
                                     <<fresh.s.validators[1]>> \o fresh.s.validators)
    IN  {settled(fresh)}
        \cup {settled(Refresh(fresh.h, fresh.s, hash, MaxBlock, EmptyStakingInfo)) : hash \in Hashes}
        \cup (IF n = 0 THEN {} ELSE {settled(grown), settled(vacated), settled(stale), settled(doubled)})

QueryCouncils == UNION {QueryCouncilsOf(n, k) : n \in 0..MaxCouncil, k \in 0..MaxSubSize}

InitQuery ==
    \E c \in QueryCouncils :
        /\ heap = c.h
        /\ valSet = c.s
        /\ other = NoCouncil
        /\ last = NoCall
        /\ replaced = 0
        /\ tally = NoTally
        /\ backing = NoBacking
        /\ validatorMu = Unlocked
        /\ threads = NoThreads
        /\ WithoutState

\* addresses a caller asks about: those of the validators and one more
QueryAddr == 1..(MaxCouncil + 1)

\* SubListWithProposer(prevHash, proposer, view): a read, the outcome is kept
CallSubListWithProposer ==
    \E prevHash \in Hashes, proposer \in QueryAddr, round \in Rounds :
        /\ last' = [op |-> "SubListWithProposer", proposer |-> proposer, round |-> round,
                    ret |-> SubListWithProposer(heap, valSet, prevHash, proposer, round)]
        /\ UNCHANGED <<heap, valSet, other, replaced, tally, backing, validatorMu, threads, stateVars, chain>>

NextCommittee == CallSubListWithProposer

SpecCommittee == InitQuery /\ [][NextCommittee]_vars

\* CalcProposer(lastProposer, round); again tells that the call before was
\* the same call, first is the proposer's address after the first of them
CallCalcProposer ==
    \E lastProposer \in QueryAddr \cup {ZeroAddr}, round \in Rounds :
        LET r     == CalcProposer(heap, valSet, lastProposer, round)
            c     == collect(r.h, r.s, other)
            again == /\ last.op = "CalcProposer"
                     /\ last.lastProposer = lastProposer
                     /\ last.round = round
        IN  /\ heap' = c.h
            /\ valSet' = c.s
            /\ other' = c.o
            /\ last' = [op |-> "CalcProposer", lastProposer |-> lastProposer, round |-> round,
                        again |-> again,
                        first |-> IF again THEN last.first ELSE c.h[c.s.proposer].address]
            /\ UNCHANGED <<replaced, tally, backing, validatorMu, threads, stateVars, chain>>

NextCalc == CallCalcProposer

SpecCalc == InitQuery /\ [][NextCalc]_vars

\* the proposer CalcProposer yields on the snapshot and the committee
\* SubListWithProposer yields for it
consensusOf(h, s, parentHash, lastProposer, round) ==
    LET calc     == CalcProposer(h, s, lastProposer, round)
        proposer == calc.h[calc.s.proposer].address
    IN  [proposer  |-> proposer,
         committee |-> SubListWithProposer(h, s, parentHash, proposer, round)]

\* blocks on top of the snapshot: the signer is the proposer or someone else,
\* the validators of the extra data are the committee in its order or in
\* reverse, the committed seals are none, those of the whole committee (in
\* another order) or the seal of a stranger followed by the committee's; and
\* the genesis block
CandidateBlocks(h, s, parentHash, lastProposer, round) ==
    LET c     == consensusOf(h, s, parentHash, lastProposer, round)
        addrs == IF c.committee.kind = "ok" THEN Addresses(h, c.committee.list) ELSE <<>>
    IN  { BlockOf(s.blockNum + 1, round, parentHash, signer, validators, committedSeal) :
              signer \in {c.proposer, MaxCouncil + 1},
              validators \in {addrs, Reverse(addrs)},
              committedSeal \in {<<>>, Reverse(addrs), <<MaxCouncil + 1>> \o addrs} }
        \cup {BlockOf(0, 0, parentHash, c.proposer, addrs, <<>>)}

\* ValidateConsensusInfo(block) with the council as the parent's snapshot
CallValidateConsensusInfo ==
    /\ Len(valSet.validators) > 0
    /\ \E parentHash \in Hashes, lastProposer \in {ZeroAddr, MaxAddr}, round \in Rounds :
         \E block \in CandidateBlocks(heap, valSet, parentHash, lastProposer, round) :
            /\ last' = [op |-> "ValidateConsensusInfo", lastProposer |-> lastProposer,
                        block |-> block,
                        ret |-> ValidateConsensusInfo(heap, valSet, lastProposer, block)]
            /\ UNCHANGED <<heap, valSet, other, replaced, tally, backing, validatorMu, threads, stateVars, chain>>

NextValidate == CallValidateConsensusInfo

SpecValidate == InitQuery /\ [][NextValidate]_vars

(* ----------------------------- two councils ---------------------------- *)
\* council s with its handles moved up by d
shifted(s, d) ==
    LET up(v) == IF v = Nil THEN Nil ELSE v + d
    IN  [s EXCEPT !.validators = [i \in 1..Len(s.validators) |-> up(s.validators[i])],
                  !.proposers  = [i \in 1..Len(s.proposers) |-> up(s.proposers[i])],
                  !.proposer   = up(s.proposer)]

\* two councils of the same n validators, each with validator objects of its
\* own, with weights or without and with any proposersBlockNum
InitTwo ==
    \E n \in 1..MaxAddr, w1 \in BOOLEAN, w2 \in BOOLEAN, pbn1 \in Blocks, pbn2 \in Blocks :
        LET a == newCouncil(n, w1, 1, MaxBlock, pbn1)
            b == newCouncil(n, w2, 1, MaxBlock, pbn2)
            c == collect(a.h \o b.h, a.s, shifted(b.s, Len(a.h)))
        IN  /\ heap = c.h
            /\ valSet = c.s
            /\ other = c.o
            /\ last = NoCall
            /\ replaced = 0
            /\ tally = NoTally
            /\ backing = NoBacking
            /\ validatorMu = Unlocked
            /\ threads = NoThreads
            /\ WithoutState

\* both councils run Refresh(hash, blockNum) and get the same staking
\* information; pbn1, pbn2 and weights1, weights2 are their proposersBlockNum
\* and the sums of their weights before the call, calls counts the calls
DoRefreshBoth ==
    LET calls == IF last.op = "RefreshBoth" THEN last.calls ELSE 0
    IN  /\ calls < MaxRefresh
        /\ \E hash \in Hashes, blockNum \in Blocks, info \in UnstakedInfos \cup StakedInfos :
             LET r1 == Refresh(heap, valSet, hash, blockNum, info)
                 r2 == Refresh(r1.h, other, hash, blockNum, info)
                 c  == collect(r2.h, r1.s, r2.s)
             IN  /\ heap' = c.h
                 /\ valSet' = c.s
                 /\ other' = c.o
                 /\ last' = [op |-> "RefreshBoth", blockNum |-> blockNum, isNil |-> info.isNil,
                             pbn1 |-> valSet.proposersBlockNum,
                             pbn2 |-> other.proposersBlockNum,
                             weights1 |-> sumSeq([i \in 1..Len(valSet.validators) |->
                                                     heap[valSet.validators[i]].weight]),
                             weights2 |-> sumSeq([i \in 1..Len(other.validators) |->
                                                     heap[other.validators[i]].weight]),
                             calls |-> calls + 1]
                 /\ UNCHANGED <<replaced, tally, backing, validatorMu, threads, stateVars, chain>>

NextTwo == DoRefreshBoth

SpecTwo == InitTwo /\ [][NextTwo]_vars

(* --------------------------- consecutive rounds ------------------------ *)
\* staking information in which node i stakes amounts[i]
stakingInfoOf(amounts) ==
    [isNil |-> FALSE,
     CouncilNodeAddrs      |-> [i \in 1..Len(amounts) |-> i],
     CouncilRewardAddrs    |-> [i \in 1..Len(amounts) |-> MaxCouncil + 1 + i],
     CouncilStakingAmounts |-> amounts,
     UseGini |-> FALSE]

RoundStakes == {<<75, 20, 5>>, <<1, 3>>}

\* a council at blockNum whose proposers a Refresh with the stakes filled;
\* the rounds start..start + len(proposers) - 1 are about to be run
InitRounds ==
    \E amounts \in RoundStakes, blockNum \in Blocks, hash \in Hashes, start \in Rounds :
        LET c == newCouncil(Len(amounts), FALSE, 1, blockNum, MaxBlock + 1)
            r == settled(Refresh(c.h, c.s, hash, blockNum, stakingInfoOf(amounts)))
        IN  /\ heap = r.h
            /\ valSet = r.s
            /\ other = NoCouncil
            /\ last = [op |-> "CalcProposerRounds", start |-> start, calls |-> 0]
            /\ replaced = 0
            /\ tally = [a \in 1..Len(amounts) |-> 0]
            /\ backing = NoBacking
            /\ validatorMu = Unlocked
            /\ threads = NoThreads
            /\ WithoutState

\* CalcProposer for the next round; tally counts the choices per address
CallCalcProposerNextRound ==
    /\ last.calls < Len(valSet.proposers)
    /\ LET lastProposer == heap[valSet.proposer].address
           r == CalcProposer(heap, valSet, lastProposer, last.start + last.calls)
           c == collect(r.h, r.s, other)
       IN  /\ heap' = c.h
           /\ valSet' = c.s
           /\ other' = c.o
           /\ last' = [last EXCEPT !.calls = @ + 1]
           /\ tally' = [tally EXCEPT ![c.h[c.s.proposer].address] = @ + 1]
           /\ UNCHANGED <<replaced, backing, validatorMu, threads, stateVars, chain>>

NextRounds == CallCalcProposerNextRound

SpecRounds == InitRounds /\ [][NextRounds]_vars

(* --------------------------- a set and its copy ------------------------ *)
\* what a caller can observe of a council: its validators and proposers as
\* the objects they point to (address, reward address, voting power, weight),
\* its proposer and proposersBlockNum
observed(h, s) ==
    [validators        |-> [i \in 1..Len(s.validators) |-> h[s.validators[i]]],
     proposers         |-> [i \in 1..Len(s.proposers) |-> h[s.proposers[i]]],
     proposer          |-> IF s.proposer = Nil THEN <<>> ELSE <<h[s.proposer]>>,
     proposersBlockNum |-> s.proposersBlockNum]

\* the council a call runs on, valSet ("set") or its copy other ("copy")
Targets == {"set", "copy"}
councilOf(target) == IF target = "set" THEN valSet ELSE other

\* a set S and c = S.Copy()
InitCopy ==
    \E n \in 1..MaxAddr, withWeights \in BOOLEAN :
        LET c == newCouncil(n, withWeights, 1, MaxBlock, 0)
        IN  /\ heap = c.h
            /\ valSet = c.s
            /\ other = Copy(c.s)
            /\ last = [op |-> "Copy", calls |-> 0]
            /\ replaced = 0
            /\ tally = NoTally
            /\ backing = NoBacking
            /\ validatorMu = Unlocked
            /\ threads = NoThreads
            /\ WithoutState

\* a call on target returns; kept is what could be observed of the council
\* the call did not run on, before the call, calls counts the calls
ReturnOn(target, op, r) ==
    LET c == IF target = "set" THEN collect(r.h, r.s, other) ELSE collect(r.h, valSet, r.s)
    IN  /\ last.calls < MaxCalls
        /\ heap' = c.h
        /\ valSet' = c.s
        /\ other' = c.o
        /\ last' = [op |-> op, target |-> target, calls |-> last.calls + 1,
                    kept |-> observed(heap, councilOf(IF target = "set" THEN "copy" ELSE "set"))]
        /\ UNCHANGED <<tally, backing, validatorMu, threads, stateVars, chain>>

CalcProposerOn ==
    \E target \in Targets, lastProposer \in Addr \cup {ZeroAddr}, round \in Rounds :
        /\ LET r == CalcProposer(heap, councilOf(target), lastProposer, round)
           IN  ReturnOn(target, "CalcProposer", [h |-> r.h, s |-> r.s])
        /\ UNCHANGED replaced

AddValidatorOn ==
    \E target \in Targets, address \in Addr :
        /\ ReturnOn(target, "AddValidator", AddValidator(heap, councilOf(target), address))
        /\ UNCHANGED replaced

RemoveValidatorOn ==
    \E target \in Targets, address \in Addr :
        /\ ReturnOn(target, "RemoveValidator", RemoveValidator(heap, councilOf(target), address))
        /\ UNCHANGED replaced

ReplaceValidatorsOn ==
    /\ replaced < MaxReplace
    /\ replaced' = replaced + 1
    /\ \E target \in Targets :
         \E vals \in ReplaceLists(councilOf(target)) :
            ReturnOn(target, "ReplaceValidators", ReplaceValidators(heap, councilOf(target), vals))

RefreshOn ==
    \E target \in Targets, hash \in Hashes, blockNum \in Blocks,
       info \in UnstakedInfos \cup StakedInfos :
        /\ ReturnOn(target, "Refresh", Refresh(heap, councilOf(target), hash, blockNum, info))
        /\ UNCHANGED replaced

\* c = S.Copy() once more: the earlier copy is dropped
DoCopy ==
    /\ LET c == collect(heap, valSet, Copy(valSet))
       IN  /\ heap' = c.h
           /\ valSet' = c.s
           /\ other' = c.o
    /\ last' = [op |-> "Copy", calls |-> last.calls]
    /\ UNCHANGED <<replaced, tally, backing, validatorMu, threads, stateVars, chain>>

NextCopy ==
    \/ CalcProposerOn
    \/ AddValidatorOn
    \/ RemoveValidatorOn
    \/ ReplaceValidatorsOn
    \/ RefreshOn
    \/ DoCopy

SpecCopy == InitCopy /\ [][NextCopy]_vars

(* ------------------------- the slice List() returns -------------------- *)
\* valSet.validators is a slice of backing.array: its first
\* len(valSet.validators) slots, the capacity is the length of the array.
\* List() returns the slice itself; backing.listed holds, for the slice of
\* the last List() call, whether it still is a slice of backing.array, its
\* elements when List() returned and its elements now.

\* the capacity append gives a full slice of capacity cap that grows by one
\* (runtime.growslice, capacities below 256)
growslice(cap) == IF cap = 0 THEN 1 ELSE 2 * cap

\* append(slice, v) for the slice of the first len slots of array: in place
\* when the capacity allows, else into a new array
appendArray(array, len, v) ==
    IF len < Len(array) THEN [array EXCEPT ![len + 1] = v]
    ELSE SubSeq(array, 1, len) \o <<v>>
         \o [i \in 1..(growslice(Len(array)) - len - 1) |-> Nil]

\* sort.Sort(slice): sorts the first len slots in place
sortArray(h, array, len) ==
    sortValidators(h, SubSeq(array, 1, len)) \o SubSeq(array, len + 1, Len(array))

\* append(slice[:i], slice[i+1:]...) with i from 1: the slots after i move
\* down by one in place, slot len keeps its value
cutArray(array, len, i) ==
    SubSeq(array, 1, i - 1) \o SubSeq(array, i + 1, len) \o SubSeq(array, len, Len(array))

\* the slice List() returned after the council's array became array;
\* reallocated tells that the council moved to a new array
relisted(listed, array, reallocated) ==
    IF listed = <<>> \/ ~listed[1].shared THEN listed
    ELSE IF reallocated THEN <<[listed[1] EXCEPT !.shared = FALSE]>>
    ELSE <<[listed[1] EXCEPT !.now = SubSeq(array, 1, Len(listed[1].returned))]>>

InitList ==
    \E n \in 0..MaxAddr, withWeights \in BOOLEAN :
        LET c == newCouncil(n, withWeights, 1, MaxBlock, 0)
        IN  /\ heap = c.h
            /\ valSet = c.s
            /\ other = NoCouncil
            /\ last = [op |-> "NewWeightedCouncil", calls |-> 0]
            /\ replaced = 0
            /\ tally = NoTally
            /\ backing = [array |-> c.s.validators, listed |-> <<>>]
            /\ validatorMu = Unlocked
            /\ threads = NoThreads
            /\ WithoutState

\* a call returns with the council's array as array
ReturnListed(op, r, array, reallocated) ==
    /\ last.calls < MaxCalls
    /\ heap' = r.h
    /\ valSet' = r.s
    /\ last' = [op |-> op, calls |-> last.calls + 1]
    /\ backing' = [array |-> array, listed |-> relisted(backing.listed, array, reallocated)]
    /\ UNCHANGED <<other, tally, validatorMu, threads, stateVars, chain>>

\* List(): the caller keeps the slice
CallList ==
    /\ last.calls < MaxCalls
    /\ last' = [op |-> "List", calls |-> last.calls + 1]
    /\ backing' = [backing EXCEPT !.listed = <<[shared   |-> TRUE,
                                                returned |-> valSet.validators,
                                                now      |-> valSet.validators]>>]
    /\ UNCHANGED <<heap, valSet, other, replaced, tally, validatorMu, threads, stateVars, chain>>

AddValidatorInPlace ==
    \E address \in Addr :
        LET r   == AddValidator(heap, valSet, address)
            len == Len(valSet.validators)
        IN  /\ IF r.ret
               THEN ReturnListed("AddValidator", r,
                                 sortArray(r.h, appendArray(backing.array, len, Len(r.h)), len + 1),
                                 len = Len(backing.array))
               ELSE ReturnListed("AddValidator", r, backing.array, FALSE)
            /\ UNCHANGED replaced

RemoveValidatorInPlace ==
    \E address \in Addr :
        LET r   == RemoveValidator(heap, valSet, address)
            len == Len(valSet.validators)
        IN  /\ IF r.ret
               THEN ReturnListed("RemoveValidator", r,
                                 cutArray(backing.array, len,
                                          getByAddress(heap, valSet, address).idx + 1),
                                 FALSE)
               ELSE ReturnListed("RemoveValidator", r, backing.array, FALSE)
            /\ UNCHANGED replaced

\* ReplaceValidators makes a new slice of len(vals) and copies vals into it
ReplaceValidatorsAfresh ==
    /\ replaced < MaxReplace
    /\ replaced' = replaced + 1
    /\ \E vals \in ReplaceLists(valSet) :
         ReturnListed("ReplaceValidators", ReplaceValidators(heap, valSet, vals), vals, TRUE)

RefreshListed ==
    \E hash \in Hashes, blockNum \in Blocks, info \in UnstakedInfos :
        /\ ReturnListed("Refresh", Refresh(heap, valSet, hash, blockNum, info),
                        backing.array, FALSE)
        /\ UNCHANGED replaced

NextList ==
    \/ CallList
    \/ AddValidatorInPlace
    \/ RemoveValidatorInPlace
    \/ ReplaceValidatorsAfresh
    \/ RefreshListed

SpecList == InitList /\ [][NextList]_vars

\* the council's validators are the first slots of its array
BackingAgrees == valSet.validators = SubSeq(backing.array, 1, Len(valSet.validators))

(* ------------------------- threads and validatorMu --------------------- *)
\* This specification follows, for every method, the order in which it
\* takes and releases validatorMu and reads and writes the fields of the
\* council; the values of the fields are not followed.
MaxThreads == 2
Threads == 1..MaxThreads

RLockStep == [do |-> "RLock", field |-> "validatorMu"]
RUnlockStep == [do |-> "RUnlock", field |-> "validatorMu"]
LockStep == [do |-> "Lock", field |-> "validatorMu"]
UnlockStep == [do |-> "Unlock", field |-> "validatorMu"]
ReadStep(field) == [do |-> "read", field |-> field]
WriteStep(field) == [do |-> "write", field |-> field]

\* the fields validatorMu is there for
GuardedFields == {"validators", "proposers", "stakingInfo", "blockNum"}

Methods ==
    {"Size", "List", "GetByIndex", "GetByAddress", "SubListWithProposer", "CalcProposer",
     "AddValidator", "RemoveValidator", "ReplaceValidators", "GetValidators", "Copy",
     "Refresh", "SetBlockNum", "Proposers", "GetWeightedCouncilData",
     "RecoverWeightedCouncilProposer"}

\* what a read-locked lookup of validators does
lockedLookup == <<RLockStep, ReadStep("validators"), RUnlockStep>>

\* the steps of a method, in the order of its code
Program(method) ==
    CASE method \in {"Size", "List", "GetByIndex", "GetByAddress"} -> lockedLookup
      [] method = "SubListWithProposer" ->
            <<RLockStep, ReadStep("validators"), ReadStep("proposers"), ReadStep("blockNum"),
              ReadStep("validators"), RUnlockStep>>
      [] method = "CalcProposer" ->
            <<RLockStep, ReadStep("proposers"), ReadStep("blockNum"), ReadStep("validators"),
              ReadStep("blockNum"), RUnlockStep>>
      [] method = "AddValidator" ->
            <<LockStep, ReadStep("validators"), WriteStep("validators"), UnlockStep>>
      [] method = "RemoveValidator" ->
            <<LockStep, ReadStep("validators"), WriteStep("validators"),
              ReadStep("proposers"), WriteStep("proposers"), UnlockStep>>
      [] method = "ReplaceValidators" -> <<LockStep, WriteStep("validators"), UnlockStep>>
      [] method = "GetValidators" -> <<ReadStep("validators")>>
      [] method = "Copy" ->
            <<RLockStep, ReadStep("stakingInfo"), ReadStep("blockNum"), ReadStep("validators"),
              ReadStep("proposers"), RUnlockStep>>
      [] method = "Refresh" ->
            <<LockStep, ReadStep("validators"), WriteStep("stakingInfo"),
              ReadStep("stakingInfo"), ReadStep("validators"), WriteStep("proposers"),
              UnlockStep>>
      [] method = "SetBlockNum" -> <<WriteStep("blockNum")>>
      [] method = "Proposers" -> <<ReadStep("proposers")>>
      [] method = "GetWeightedCouncilData" ->
            <<ReadStep("validators")>> \o lockedLookup \o <<ReadStep("proposers")>>
      [] method = "RecoverWeightedCouncilProposer" ->
            lockedLookup \o <<WriteStep("proposers")>>

Idle == [method |-> "none", pc |-> 0]

running(t) == threads[t].method # "none"

\* the thread has run all steps of its method
finished(t) == running(t) /\ threads[t].pc > Len(Program(threads[t].method))

\* the step thread t is about to take
stepOf(t) ==
    IF running(t) /\ ~finished(t) THEN Program(threads[t].method)[threads[t].pc]
    ELSE [do |-> "none", field |-> "none"]

holdsShared(t) == t \in validatorMu.readers
holdsExclusive(t) == validatorMu.writer = t

InitThreads ==
    \E n \in 1..MaxAddr :
        LET c == newCouncil(n, FALSE, 1, MaxBlock, 0)
        IN  /\ heap = c.h
            /\ valSet = c.s
            /\ other = NoCouncil
            /\ last = NoCall
            /\ replaced = 0
            /\ tally = NoTally
            /\ backing = NoBacking
            /\ validatorMu = Unlocked
            /\ threads = [t \in Threads |-> Idle]
            /\ WithoutState

advance(t) == threads' = [threads EXCEPT ![t].pc = @ + 1]

quiet == UNCHANGED <<heap, valSet, other, last, replaced, tally, backing, stateVars, chain>>

\* thread t calls a method
Call(t) ==
    /\ ~running(t)
    /\ \E method \in Methods : threads' = [threads EXCEPT ![t] = [method |-> method, pc |-> 1]]
    /\ UNCHANGED validatorMu
    /\ quiet

\* validatorMu.RLock(): waits while a writer holds the lock
RLock(t) ==
    /\ stepOf(t) = RLockStep
    /\ validatorMu.writer = 0
    /\ validatorMu' = [validatorMu EXCEPT !.readers = @ \cup {t}]
    /\ advance(t)
    /\ quiet

RUnlock(t) ==
    /\ stepOf(t) = RUnlockStep
    /\ validatorMu' = [validatorMu EXCEPT !.readers = @ \ {t}]
    /\ advance(t)
    /\ quiet

\* validatorMu.Lock(): waits while anybody holds the lock
Lock(t) ==
    /\ stepOf(t) = LockStep
    /\ validatorMu = Unlocked
    /\ validatorMu' = [validatorMu EXCEPT !.writer = t]
    /\ advance(t)
    /\ quiet

Unlock(t) ==
    /\ stepOf(t) = UnlockStep
    /\ validatorMu' = [validatorMu EXCEPT !.writer = 0]
    /\ advance(t)
    /\ quiet

\* a read or a write of a field
Access(t) ==
    /\ stepOf(t).do \in {"read", "write"}
    /\ advance(t)
    /\ UNCHANGED validatorMu
    /\ quiet

\* the method returns
ReturnFrom(t) ==
    /\ finished(t)
    /\ threads' = [threads EXCEPT ![t] = Idle]
    /\ UNCHANGED validatorMu
    /\ quiet

NextThreads ==
    \E t \in Threads :
        \/ Call(t)
        \/ RLock(t)
        \/ RUnlock(t)
        \/ Lock(t)
        \/ Unlock(t)
        \/ Access(t)
        \/ ReturnFrom(t)

SpecThreads == InitThreads /\ [][NextThreads]_vars

(* ----------------------------- recorded calls -------------------------- *)
\* the arguments of a recorded call (those the method does not take are 0)
ArgsOf(address, blockNum, info) ==
    [address |-> address, blockNum |-> blockNum, isNil |-> info.isNil]

NoArgs == ArgsOf(ZeroAddr, 0, NoStakingInfo)

\* the councils a constructed council c is in before the calls that are
\* recorded: c itself, c after RemoveValidator of one of its validators (a
\* gap in the addresses, a proposer and a proposers entry less) and c after a
\* Refresh with stakes (weights, reward addresses, weighted proposers)
SetUps(c) ==
    {settled(c)}
    \cup {settled(RemoveValidator(c.h, c.s, a)) : a \in 1..Len(c.s.validators)}
    \cup {settled(Refresh(c.h, c.s, hash, blockNum, info)) :
              hash \in Hashes, blockNum \in Blocks, info \in StakedInfos}

\* a council of 0..MaxCouncil validators, constructed and set up; the next
\* two calls on it are recorded
InitCalls ==
    \E n \in 0..MaxCouncil, withWeights \in BOOLEAN :
        \E c \in SetUps(newCouncil(n, withWeights, 1, MaxBlock, 0)) :
            /\ heap = c.h
            /\ valSet = c.s
            /\ other = NoCouncil
            /\ last = [op |-> "NewWeightedCouncil", args |-> NoArgs, ret |-> TRUE,
                       before |-> observed(c.h, c.s), info |-> c.s.stakingInfo,
                       prev |-> [op |-> "none", args |-> NoArgs, ret |-> TRUE,
                                 before |-> observed(c.h, c.s)]]
            /\ replaced = 0
            /\ tally = NoTally
            /\ backing = NoBacking
            /\ validatorMu = Unlocked
            /\ threads = NoThreads
            /\ WithoutState

\* the first or the second call returns: last keeps its name, arguments and
\* return value, what could be observed of the council and its stakingInfo
\* before the call, and the same of the call before
ReturnRecorded(op, args, r) ==
    LET c == collect(r.h, r.s, other)
    IN  /\ last.prev.op \in {"none", "NewWeightedCouncil"}
        /\ heap' = c.h
        /\ valSet' = c.s
        /\ other' = c.o
        /\ last' = [op |-> op, args |-> args, ret |-> r.ret,
                    before |-> observed(heap, valSet), info |-> valSet.stakingInfo,
                    prev |-> [op |-> last.op, args |-> last.args, ret |-> last.ret,
                              before |-> last.before]]
        /\ UNCHANGED <<tally, backing, validatorMu, threads, stateVars, chain>>

CallAddValidator ==
    \E address \in QueryAddr :
        /\ ReturnRecorded("AddValidator", ArgsOf(address, 0, NoStakingInfo),
                          AddValidator(heap, valSet, address))
        /\ UNCHANGED replaced

CallRemoveValidator ==
    \E address \in QueryAddr :
        /\ ReturnRecorded("RemoveValidator", ArgsOf(address, 0, NoStakingInfo),
                          RemoveValidator(heap, valSet, address))
        /\ UNCHANGED replaced

CallReplaceValidators ==
    /\ replaced < MaxReplace
    /\ replaced' = replaced + 1
    /\ \E vals \in ReplaceLists(valSet) :
         ReturnRecorded("ReplaceValidators", NoArgs, ReplaceValidators(heap, valSet, vals))

CallRefresh ==
    \E hash \in Hashes, blockNum \in Blocks, info \in UnstakedInfos \cup StakedInfos :
        /\ ReturnRecorded("Refresh", ArgsOf(ZeroAddr, blockNum, info),
                          Refresh(heap, valSet, hash, blockNum, info))
        /\ UNCHANGED replaced

NextCalls ==
    \/ CallAddValidator
    \/ CallRemoveValidator
    \/ CallReplaceValidators
    \/ CallRefresh

SpecCalls == InitCalls /\ [][NextCalls]_vars

(* ---------------------------------- F ---------------------------------- *)
\* a council of 0..MaxSize validators
InitF ==
    \E n \in 0..MaxSize :
        LET c == newCouncil(n, FALSE, 1, MaxBlock, 0)
        IN  /\ heap = c.h
            /\ valSet = c.s
            /\ other = NoCouncil
            /\ last = NoCall
            /\ replaced = 0
            /\ tally = NoTally
            /\ backing = NoBacking
            /\ validatorMu = Unlocked
            /\ threads = NoThreads
            /\ WithoutState

CallSetSubGroupSize ==
    \E size \in 0..(MaxSize + 1) :
        /\ valSet' = SetSubGroupSize(valSet, size)
        /\ last' = [op |-> "SetSubGroupSize", ret |-> 0]
        /\ UNCHANGED <<heap, other, replaced, tally, backing, validatorMu, threads, stateVars, chain>>

CallF ==
    /\ last' = [op |-> "F", ret |-> F(valSet)]
    /\ UNCHANGED <<heap, valSet, other, replaced, tally, backing, validatorMu, threads, stateVars, chain>>

NextF ==
    \/ CallSetSubGroupSize
    \/ CallF

SpecF == InitF /\ [][NextF]_vars

(* ------------------------------- weights ------------------------------- *)
\* what a council node stakes: nothing, a little, a share that ends in a
\* half of a percent next to a stake of 1, much
StakeAmounts == {0, 1, 7, 300}

RECURSIVE AmountLists(_)
AmountLists(n) ==
    IF n = 0 THEN {<<>>}
    ELSE AmountLists(n - 1)
         \cup {Append(l, a) : l \in {m \in AmountLists(n - 1) : Len(m) = n - 1}, a \in StakeAmounts}

\* what reward.GetStakingInfo can answer: nodes 1..k stake amounts of
\* StakeAmounts (no Gini coefficient), or the staking informations of
\* StakedInfos and FoldedInfos, in which contracts of no validator add to stakes
WeightInfos == {stakingInfoOf(l) : l \in AmountLists(MaxStakers)} \cup StakedInfos \cup FoldedInfos

\* a council of 1..MaxCouncil validators, constructed without weights or
\* with the weights n, .., 1
InitWeights ==
    \E n \in 1..MaxCouncil, withWeights \in BOOLEAN :
        LET c == newCouncil(n, withWeights, 1, MaxBlock, 0)
        IN  /\ heap = c.h
            /\ valSet = c.s
            /\ other = NoCouncil
            /\ last = [op |-> "NewWeightedCouncil"]
            /\ replaced = 0
            /\ tally = NoTally
            /\ backing = NoBacking
            /\ validatorMu = Unlocked
            /\ threads = NoThreads
            /\ WithoutState

\* Refresh on the constructed council; last keeps the return value and the
\* stakingAmounts and totalStaking that calcWeight was called with
CallRefreshWithStakes ==
    /\ last.op = "NewWeightedCouncil"
    /\ \E hash \in Hashes, blockNum \in Blocks, info \in WeightInfos :
           LET r == Refresh(heap, valSet, hash, blockNum, info)
               staked == getStakingAmountsOfValidators(heap, valSet, info)
           IN  /\ heap' = r.h
               /\ valSet' = r.s
               /\ last' = [op |-> "Refresh", ret |-> r.ret, blockNum |-> blockNum,
                           shortCircuited |-> valSet.proposersBlockNum = blockNum,
                           info |-> info, stakingAmounts |-> staked.amounts,
                           totalStaking |-> calcTotalAmount(info, staked.amounts)]
    /\ UNCHANGED <<other, replaced, tally, backing, validatorMu, threads, stateVars, chain>>

NextWeights == CallRefreshWithStakes

SpecWeights == InitWeights /\ [][NextWeights]_vars

(* ----------------------------- state object ---------------------------- *)
\* storage keys are 1..MaxKey
Keys == 1..MaxKey

\* a common.Hash is WordLen bytes here; the values stored are zero, a value
\* of one significant byte below 0x80, one of 0x80 or above, and a value
\* without leading zero bytes
WordLen == 2
zeroWord == [i \in 1..WordLen |-> 0]
Words == {zeroWord, <<0, 1>>, <<0, 200>>, <<1, 0>>}

\* contract codes are 1..MaxCode and Keccak256(code) is taken to be the
\* code's number; NilCode is the nil slice and emptyCodeHash its hash
NilCode == 0
emptyCodeHash == 0
Codes == 1..MaxCode

\* a nil error, a nil Trie, an empty Storage
NilErr == <<>>
NilTrie == <<>>
EmptyStorage == [k \in {} |-> zeroWord]
EmptyTrie == [k \in {} |-> <<>>]

\* the n-th error of the database, of a trie operation or of a code load
ErrorOf(kind, d) == <<kind, d.failures + 1>>
failed(d) == [d EXCEPT !.failures = @ + 1]

ErrNotProgramAccount == "not a program account"

\* account.GetProgramAccount(c.account) != nil
IsProgramAccount(o) == o.account.isProgram

\* CodeHash: the hash of a program account, emptyCodeHash of any other
CodeHash(o) == IF IsProgramAccount(o) THEN o.account.codeHash ELSE emptyCodeHash

\* empty: nonce, balance and code hash are all empty
empty(o) == o.account.nonce = 0 /\ o.account.balance = 0 /\ CodeHash(o) = emptyCodeHash

\* newObject(db, address, data)
newObject(address, data) ==
    [address |-> address, account |-> data, dbErr |-> NilErr, storageTrie |-> NilTrie,
     code |-> NilCode, cachedStorage |-> EmptyStorage, dirtyStorage |-> EmptyStorage,
     dirtyCode |-> FALSE, suicided |-> FALSE, deleted |-> FALSE]

\* setError remembers the first non-nil error it is called with
setError_last(o, err) == IF err # NilErr THEN [o EXCEPT !.dbErr = err] ELSE o

setError(o, err) == IF o.dbErr = NilErr THEN [o EXCEPT !.dbErr = err] ELSE o

markSuicided(o) == [o EXCEPT !.suicided = TRUE]

\* the address of the RIPEMD precompile, and an ordinary address
ripemd == 3
ObjectAddresses == {1, ripemd}

\* touch: appends a touchChange, and puts ripemd into the journal's dirties
touch(o, j) ==
    LET j1 == [j EXCEPT !.entries = Append(@, [kind |-> "touchChange", account |-> o.address])]
    IN  IF o.address = ripemd THEN [j1 EXCEPT !.dirties = @ \cup {o.address}] ELSE j1

\* db.OpenStorageTrie(root): the trie with this root, when the database has it
OpenStorageTrie(d, root, fails) ==
    IF fails \/ root \notin d.tries THEN [trie |-> NilTrie, err |-> ErrorOf("trie", d)]
    ELSE [trie |-> <<root>>, err |-> NilErr]

\* getStorageTrie: opens the storage trie on first access; f names the kinds
\* of database operations that fail during the call
getStorageTrie(o, d, f) ==
    IF o.storageTrie # NilTrie THEN [o |-> o, d |-> d]
    ELSE IF IsProgramAccount(o)
    THEN LET opened == OpenStorageTrie(d, o.account.storageRoot, "open" \in f)
         IN  IF opened.err # NilErr
             THEN [o |-> setError([o EXCEPT !.storageTrie = <<EmptyTrie>>], opened.err),
                   d |-> failed(d)]
             ELSE [o |-> [o EXCEPT !.storageTrie = opened.trie], d |-> d]
    ELSE [o |-> [o EXCEPT !.storageTrie = <<EmptyTrie>>], d |-> d]

\* bytes.TrimLeft(value[:], "\x00")
RECURSIVE TrimLeft(_)
TrimLeft(bytes) ==
    IF bytes # <<>> /\ Head(bytes) = 0 THEN TrimLeft(Tail(bytes)) ELSE bytes

\* rlp.EncodeToBytes of a byte string shorter than 56 bytes
EncodeToBytes(bytes) ==
    IF Len(bytes) = 1 /\ bytes[1] < 128 THEN bytes ELSE <<128 + Len(bytes)>> \o bytes

\* rlp.Split of an encoded byte string: its content, or an error
Split(enc) ==
    IF enc[1] < 128 THEN [content |-> <<enc[1]>>, ok |-> TRUE]
    ELSE LET size == enc[1] - 128
         IN  IF Len(enc) < 1 + size \/ (size = 1 /\ enc[2] < 128)
             THEN [content |-> <<>>, ok |-> FALSE]
             ELSE [content |-> SubSeq(enc, 2, 1 + size), ok |-> TRUE]

\* SetBytes that pads on the right
SetBytes_padRight(content) ==
    LET cut == IF Len(content) > WordLen
               THEN SubSeq(content, Len(content) - WordLen + 1, Len(content)) ELSE content
    IN  cut \o [i \in 1..(WordLen - Len(cut)) |-> 0]

\* common.Hash.SetBytes: the last WordLen bytes, padded with zeros on the left
SetBytes(content) ==
    LET cut == IF Len(content) > WordLen
               THEN SubSeq(content, Len(content) - WordLen + 1, Len(content)) ELSE content
    IN  [i \in 1..(WordLen - Len(cut)) |-> 0] \o cut

\* Trie.TryGet: the bytes stored under the key, none when there are none
TryGet(trie, key) == IF key \in DOMAIN trie[1] THEN trie[1][key] ELSE <<>>

\* Trie.TryUpdate and Trie.TryDelete
TryUpdate(trie, key, v) ==
    <<[k \in DOMAIN trie[1] \cup {key} |-> IF k = key THEN v ELSE trie[1][k]]>>
TryDelete(trie, key) ==
    <<[k \in DOMAIN trie[1] \ {key} |-> trie[1][k]]>>

\* a Storage with one entry set
stored(storage, key, value) ==
    [k \in DOMAIN storage \cup {key} |-> IF k = key THEN value ELSE storage[k]]

\* GetState: the cached value, or the value of the trie, which is cached
GetState(o, d, key, f) ==
    IF key \in DOMAIN o.cachedStorage THEN [o |-> o, d |-> d, ret |-> o.cachedStorage[key]]
    ELSE LET t   == getStorageTrie(o, d, f)
             enc == TryGet(t.o.storageTrie, key)
         IN  IF "read" \in f
             THEN [o |-> setError(t.o, ErrorOf("trie", t.d)), d |-> failed(t.d), ret |-> zeroWord]
             ELSE IF Len(enc) > 0
             THEN LET split == IF "decode" \in f THEN [content |-> <<>>, ok |-> FALSE] ELSE Split(enc)
                      o1    == IF split.ok THEN t.o ELSE setError(t.o, ErrorOf("trie", t.d))
                      d1    == IF split.ok THEN t.d ELSE failed(t.d)
                      value == SetBytes(split.content)
                  IN  [o |-> [o1 EXCEPT !.cachedStorage = stored(@, key, value)], d |-> d1,
                       ret |-> value]
             ELSE [o |-> [t.o EXCEPT !.cachedStorage = stored(@, key, zeroWord)], d |-> t.d,
                   ret |-> zeroWord]

setState(o, key, value) ==
    [o EXCEPT !.cachedStorage = stored(@, key, value), !.dirtyStorage = stored(@, key, value)]

\* SetState that journals the value it sets
SetState_journalsNew(o, j, d, key, value, f) ==
    LET got == GetState(o, d, key, f)
    IN  [o |-> setState(got.o, key, value),
         j |-> [j EXCEPT !.entries = Append(@, [kind |-> "storageChange", account |-> o.address,
                                                key |-> key, prevalue |-> value])],
         d |-> got.d]

\* SetState: appends a storageChange with the value GetState returns
SetState(o, j, d, key, value, f) ==
    LET got == GetState(o, d, key, f)
    IN  [o |-> setState(got.o, key, value),
         j |-> [j EXCEPT !.entries = Append(@, [kind |-> "storageChange", account |-> o.address,
                                                key |-> key, prevalue |-> got.ret])],
         d |-> got.d]

\* the loop of updateStorageTrie without the branch for the zero value: a
\* zero is written like any other value
RECURSIVE writeDirty_storesZero(_, _, _, _)
writeDirty_storesZero(o, d, keys, f) ==
    IF keys = {} THEN [o |-> o, d |-> d]
    ELSE LET key   == CHOOSE k \in keys : TRUE
             value == o.dirtyStorage[key]
             o1    == [o EXCEPT !.dirtyStorage = [k \in DOMAIN @ \ {key} |-> @[k]]]
             v     == EncodeToBytes(TrimLeft(value))
             o2    == IF "write" \in f THEN setError(o1, ErrorOf("trie", d))
                      ELSE [o1 EXCEPT !.storageTrie = TryUpdate(@, key, v)]
             d1    == IF "write" \in f THEN failed(d) ELSE d
         IN  writeDirty_storesZero(o2, d1, keys \ {key}, f)

\* updateStorageTrie: writes the dirty entries into the storage trie, in any
\* order (the keys of keys are left); the first failing write is remembered
RECURSIVE writeDirty(_, _, _, _)
writeDirty(o, d, keys, f) ==
    IF keys = {} THEN [o |-> o, d |-> d]
    ELSE LET key   == CHOOSE k \in keys : TRUE
             value == o.dirtyStorage[key]
             o1    == [o EXCEPT !.dirtyStorage = [k \in DOMAIN @ \ {key} |-> @[k]]]
             v     == EncodeToBytes(TrimLeft(value))
             o2    == IF "write" \in f THEN setError(o1, ErrorOf("trie", d))
                      ELSE IF value = zeroWord
                      THEN [o1 EXCEPT !.storageTrie = TryDelete(@, key)]
                      ELSE [o1 EXCEPT !.storageTrie = TryUpdate(@, key, v)]
             d1    == IF "write" \in f THEN failed(d) ELSE d
         IN  writeDirty(o2, d1, keys \ {key}, f)

updateStorageTrie(o, d, f) ==
    LET t == getStorageTrie(o, d, f)
    IN  writeDirty(t.o, t.d, DOMAIN t.o.dirtyStorage, f)

\* CommitStorageTrie that commits in spite of a remembered error
CommitStorageTrie_ignoresError(o, d, f) ==
    LET u == updateStorageTrie(o, d, f)
    IN  IF IsProgramAccount(u.o)
        THEN IF "commit" \in f
             THEN [o |-> u.o, d |-> failed(u.d), ret |-> ErrorOf("commit", u.d)]
             ELSE [o |-> [u.o EXCEPT !.account.storageRoot = u.o.storageTrie[1]],
                   d |-> [u.d EXCEPT !.tries = @ \cup {u.o.storageTrie[1]}],
                   ret |-> NilErr]
        ELSE [o |-> u.o, d |-> u.d, ret |-> NilErr]

\* CommitStorageTrie: the root of a trie is the trie's content here
CommitStorageTrie(o, d, f) ==
    LET u == updateStorageTrie(o, d, f)
    IN  IF u.o.dbErr # NilErr THEN [o |-> u.o, d |-> u.d, ret |-> u.o.dbErr]
        ELSE IF IsProgramAccount(u.o)
        THEN IF "commit" \in f
             THEN [o |-> u.o, d |-> failed(u.d), ret |-> ErrorOf("commit", u.d)]
             ELSE [o |-> [u.o EXCEPT !.account.storageRoot = u.o.storageTrie[1]],
                   d |-> [u.d EXCEPT !.tries = @ \cup {u.o.storageTrie[1]}],
                   ret |-> NilErr]
        ELSE [o |-> u.o, d |-> u.d, ret |-> NilErr]

setBalance(o, amount) == [o EXCEPT !.account.balance = amount]

\* SetBalance that appends no balanceChange
SetBalance_unjournaled(o, j, amount) == [o |-> setBalance(o, amount), j |-> j]

SetBalance(o, j, amount) ==
    [o |-> setBalance(o, amount),
     j |-> [j EXCEPT !.entries = Append(@, [kind |-> "balanceChange", account |-> o.address,
                                            prev |-> o.account.balance])]]

\* AddBalance that touches the account whatever it holds
AddBalance_touchesAlways(o, j, amount) ==
    IF amount = 0 THEN [o |-> o, j |-> touch(o, j)]
    ELSE SetBalance(o, j, o.account.balance + amount)

AddBalance(o, j, amount) ==
    IF amount = 0 THEN [o |-> o, j |-> IF empty(o) THEN touch(o, j) ELSE j]
    ELSE SetBalance(o, j, o.account.balance + amount)

SubBalance(o, j, amount) ==
    IF amount = 0 THEN [o |-> o, j |-> j]
    ELSE SetBalance(o, j, o.account.balance - amount)

\* Code: the code of the object, loaded from the database on first use
Code(o, d, f) ==
    IF o.code # NilCode THEN [o |-> o, d |-> d, ret |-> o.code]
    ELSE IF CodeHash(o) = emptyCodeHash THEN [o |-> o, d |-> d, ret |-> NilCode]
    ELSE IF "code" \in f \/ CodeHash(o) \notin d.codes
    THEN [o |-> setError([o EXCEPT !.code = NilCode], ErrorOf("code", d)), d |-> failed(d),
          ret |-> NilCode]
    ELSE [o |-> [o EXCEPT !.code = CodeHash(o)], d |-> d, ret |-> CodeHash(o)]

setCode(o, codeHash, code) ==
    IF ~IsProgramAccount(o) THEN [o |-> o, ret |-> ErrNotProgramAccount]
    ELSE [o |-> [o EXCEPT !.code = code, !.account.codeHash = codeHash, !.dirtyCode = TRUE],
          ret |-> NilErr]

\* SetCode: appends a codeChange, then sets the code
SetCode(o, j, d, codeHash, code, f) ==
    LET prev == Code(o, d, f)
        set  == setCode(prev.o, codeHash, code)
    IN  [o |-> set.o,
         j |-> [j EXCEPT !.entries = Append(@, [kind |-> "codeChange", account |-> o.address,
                                                prevhash |-> CodeHash(prev.o),
                                                prevcode |-> prev.ret])],
         d |-> prev.d, ret |-> set.ret]

setNonce(o, nonce) == [o EXCEPT !.account.nonce = nonce]

IncNonce(o, j) ==
    [o |-> setNonce(o, o.account.nonce + 1),
     j |-> [j EXCEPT !.entries = Append(@, [kind |-> "nonceChange", account |-> o.address,
                                            prev |-> o.account.nonce])]]

SetNonce(o, j, nonce) ==
    [o |-> setNonce(o, nonce),
     j |-> [j EXCEPT !.entries = Append(@, [kind |-> "nonceChange", account |-> o.address,
                                            prev |-> o.account.nonce])]]

\* the journal undoes one entry: it sets the previous balance, nonce, code
\* or storage value; a touchChange has nothing to undo
revert(o, entry) ==
    CASE entry.kind = "balanceChange" -> setBalance(o, entry.prev)
      [] entry.kind = "nonceChange"   -> setNonce(o, entry.prev)
      [] entry.kind = "codeChange"    -> setCode(o, entry.prevhash, entry.prevcode).o
      [] entry.kind = "storageChange" -> setState(o, entry.key, entry.prevalue)
      [] OTHER -> o

\* revertToSnapshot: undoes the entries after the first n, last entry first
RECURSIVE RevertToSnapshot(_, _, _)
RevertToSnapshot(o, j, n) ==
    IF Len(j.entries) <= n THEN [o |-> o, j |-> j]
    ELSE RevertToSnapshot(revert(o, j.entries[Len(j.entries)]),
                          [j EXCEPT !.entries = SubSeq(@, 1, Len(@) - 1)], n)

(* ------------------------------- journal ------------------------------- *)
\* the storage trie of the contract of the specifications: key 1 holds 0x00c8
StoredTrie == [k \in {1} |-> EncodeToBytes(TrimLeft(<<0, 200>>))]

\* the database: the committed storage tries by root, the contract codes by
\* hash, and the number of operations that failed so far
TheDatabase == [tries |-> {EmptyTrie, StoredTrie}, codes |-> {1}, failures |-> 0]

NoJournal == [entries |-> <<>>, dirties |-> {}]

\* the accounts: an empty account, the empty account of the precompile, an
\* account with a balance, a contract with code and storage, and a program
\* account without either
LegacyAccount(balance) ==
    [isProgram |-> FALSE, balance |-> balance, nonce |-> 0, codeHash |-> emptyCodeHash,
     storageRoot |-> EmptyTrie]
ProgramAccount(codeHash, storageRoot) ==
    [isProgram |-> TRUE, balance |-> 0, nonce |-> 0, codeHash |-> codeHash,
     storageRoot |-> storageRoot]
Objects ==
    {newObject(1, LegacyAccount(0)), newObject(ripemd, LegacyAccount(0)),
     newObject(1, LegacyAccount(1)), newObject(1, ProgramAccount(1, StoredTrie)),
     newObject(1, ProgramAccount(emptyCodeHash, EmptyTrie))}

\* what a caller can read from the object: balance, nonce, code, code hash,
\* the suicided flag and the value of every storage slot
seen(o, d) ==
    [balance |-> o.account.balance, nonce |-> o.account.nonce, code |-> Code(o, d, {}).ret,
     codeHash |-> CodeHash(o), suicided |-> o.suicided,
     storage |-> [k \in Keys |-> GetState(o, d, k, {}).ret]]

\* the state an object is in when the snapshot is taken: as created, or after
\* a SetState, a GetState or a markSuicided
BeforeSnapshot(o, d) ==
    {[o |-> o, j |-> NoJournal, d |-> d],
     SetState(o, NoJournal, d, 1, <<0, 1>>, {}),
     [o |-> GetState(o, d, 1, {}).o, j |-> NoJournal, d |-> d],
     [o |-> markSuicided(o), j |-> NoJournal, d |-> d]}

\* Snapshot: remembers the length of the journal
takeSnapshot(o, j, d) == <<[length |-> Len(j.entries), object |-> seen(o, d), since |-> <<>>]>>

InitJournal ==
    \E o \in Objects :
        \E w \in BeforeSnapshot(o, TheDatabase) :
            /\ stateObject = w.o
            /\ journal = w.j
            /\ db = w.d
            /\ snapshot = takeSnapshot(w.o, w.j, w.d)
            /\ copied = NoState
            /\ last = [op |-> "Snapshot", ret |-> NilErr, before |-> [o |-> w.o, j |-> w.j]]
            /\ chain = NoState
            /\ heap = <<>>
            /\ valSet = NoCouncil
            /\ other = NoCouncil
            /\ replaced = 0
            /\ tally = NoTally
            /\ backing = NoBacking
            /\ validatorMu = Unlocked
            /\ threads = NoThreads

\* the first, second or third mutation after the snapshot returns; last keeps
\* its name, its arguments, its return value and the object and journal before
Mutated(op, args, o, j, d, ret) ==
    /\ snapshot # <<>>
    /\ Len(snapshot[1].since) \in {0, 1, 2}
    /\ stateObject' = o
    /\ journal' = j
    /\ db' = d
    /\ snapshot' = [snapshot EXCEPT ![1].since = Append(@, op)]
    /\ last' = [op |-> op, args |-> args, ret |-> ret,
                before |-> [o |-> stateObject, j |-> journal]]
    /\ UNCHANGED <<copied, heap, valSet, other, replaced, tally, backing, validatorMu, threads, chain>>

CallAddBalance ==
    \E amount \in {0, 1} :
        LET r == AddBalance(stateObject, journal, amount)
        IN  Mutated("AddBalance", <<amount>>, r.o, r.j, db, NilErr)

CallSubBalance ==
    \E amount \in {0, 1} :
        LET r == SubBalance(stateObject, journal, amount)
        IN  Mutated("SubBalance", <<amount>>, r.o, r.j, db, NilErr)

CallSetBalance ==
    \E amount \in 0..MaxBalance :
        LET r == SetBalance(stateObject, journal, amount)
        IN  Mutated("SetBalance", <<amount>>, r.o, r.j, db, NilErr)

CallIncNonce ==
    LET r == IncNonce(stateObject, journal)
    IN  Mutated("IncNonce", <<>>, r.o, r.j, db, NilErr)

CallSetNonce ==
    \E nonce \in {0, MaxBalance} :
        LET r == SetNonce(stateObject, journal, nonce)
        IN  Mutated("SetNonce", <<nonce>>, r.o, r.j, db, NilErr)

CallSetCode ==
    \E code \in Codes \cup {NilCode} :
        LET r == SetCode(stateObject, journal, db, code, code, {})
        IN  Mutated("SetCode", <<code>>, r.o, r.j, r.d, r.ret)

CallSetState ==
    \E key \in Keys, value \in Words :
        LET r == SetState(stateObject, journal, db, key, value, {})
        IN  Mutated("SetState", <<key, value>>, r.o, r.j, r.d, NilErr)

CallMarkSuicided ==
    Mutated("markSuicided", <<>>, markSuicided(stateObject), journal, db, NilErr)

CallTouch ==
    Mutated("touch", <<>>, stateObject, touch(stateObject, journal), db, NilErr)

\* the journal is reverted to the snapshot
CallRevertToSnapshot ==
    /\ snapshot # <<>>
    /\ LET r == RevertToSnapshot(stateObject, journal, snapshot[1].length)
       IN  /\ stateObject' = r.o
           /\ journal' = r.j
           /\ last' = [op |-> "RevertToSnapshot", args |-> <<>>, ret |-> NilErr,
                       before |-> [o |-> stateObject, j |-> journal],
                       snapshot |-> snapshot[1]]
    /\ snapshot' = <<>>
    /\ UNCHANGED <<db, copied, heap, valSet, other, replaced, tally, backing, validatorMu, threads, chain>>

NextJournal ==
    \/ CallAddBalance
    \/ CallSubBalance
    \/ CallSetBalance
    \/ CallIncNonce
    \/ CallSetNonce
    \/ CallSetCode
    \/ CallSetState
    \/ CallMarkSuicided
    \/ CallTouch
    \/ CallRevertToSnapshot

SpecJournal == InitJournal /\ [][NextJournal]_vars

(* -------------------------------- commit ------------------------------- *)
\* an object as created, nothing read or written yet
InitCommit ==
    \E o \in Objects :
        /\ stateObject = o
        /\ journal = NoJournal
        /\ db = TheDatabase
        /\ snapshot = <<>>
        /\ copied = NoState
        /\ last = [op |-> "newObject", args |-> <<>>, ret |-> NilErr, calls |-> <<>>]
        /\ chain = NoState
        /\ heap = <<>>
        /\ valSet = NoCouncil
        /\ other = NoCouncil
        /\ replaced = 0
        /\ tally = NoTally
        /\ backing = NoBacking
        /\ validatorMu = Unlocked
        /\ threads = NoThreads

\* one of the first four calls returns; last keeps its name, arguments and
\* return value, and calls the calls so far
Called(op, args, o, j, d, ret) ==
    /\ Len(last.calls) \in {0, 1, 2, 3}
    /\ stateObject' = o
    /\ journal' = j
    /\ db' = d
    /\ last' = [op |-> op, args |-> args, ret |-> ret,
                calls |-> Append(last.calls, [op |-> op, args |-> args])]
    /\ UNCHANGED <<snapshot, copied, heap, valSet, other, replaced, tally, backing, validatorMu, threads, chain>>

CommitSetState ==
    \E key \in Keys, value \in Words :
        LET r == SetState(stateObject, journal, db, key, value, {})
        IN  Called("SetState", <<key, value>>, r.o, r.j, r.d, NilErr)

CommitCommitStorageTrie ==
    LET r == CommitStorageTrie(stateObject, db, {})
    IN  Called("CommitStorageTrie", <<>>, r.o, journal, r.d, r.ret)

CommitGetState ==
    \E key \in Keys :
        LET r == GetState(stateObject, db, key, {})
        IN  Called("GetState", <<key>>, r.o, journal, r.d, r.ret)

\* GetState of an object newly created for the account as it is now
CommitGetStateFresh ==
    \E key \in Keys :
        LET r == GetState(newObject(stateObject.address, stateObject.account), db, key, {})
        IN  Called("GetStateFresh", <<key>>, stateObject, journal, r.d, r.ret)

NextCommit ==
    \/ CommitSetState
    \/ CommitCommitStorageTrie
    \/ CommitGetState
    \/ CommitGetStateFresh

SpecCommit == InitCommit /\ [][NextCommit]_vars

(* ---------------------------- database errors -------------------------- *)
\* the database operations that can fail during one call: none, or those of
\* one kind (opening a trie, reading it, decoding what was read, writing it,
\* committing it, loading a code)
Failing(kinds) == {{}} \cup {{k} : k \in kinds}

InitErrors ==
    \E o \in Objects :
        /\ stateObject = o
        /\ journal = NoJournal
        /\ db = TheDatabase
        /\ snapshot = <<>>
        /\ copied = NoState
        /\ last = [op |-> "newObject", ret |-> NilErr, calls |-> <<>>, first |-> NilErr,
                   before |-> [root |-> o.account.storageRoot, tries |-> TheDatabase.tries]]
        /\ chain = NoState
        /\ heap = <<>>
        /\ valSet = NoCouncil
        /\ other = NoCouncil
        /\ replaced = 0
        /\ tally = NoTally
        /\ backing = NoBacking
        /\ validatorMu = Unlocked
        /\ threads = NoThreads

\* one of the first four calls returns, with the operations of f failing;
\* last keeps its name and return value, the names of the calls so far, the
\* storage root and the committed tries before the call, and in first the
\* first error that a trie operation or a code load of the object returned
Failed(op, f, o, j, d, ret) ==
    /\ Len(last.calls) \in {0, 1, 2, 3}
    /\ stateObject' = o
    /\ journal' = j
    /\ db' = d
    /\ last' = [op |-> op, ret |-> ret, calls |-> Append(last.calls, op),
                first |-> IF last.first # NilErr \/ d.failures = db.failures \/ f = {"commit"}
                          THEN last.first
                          ELSE ErrorOf(IF f = {"code"} THEN "code" ELSE "trie", db),
                before |-> [root |-> stateObject.account.storageRoot, tries |-> db.tries]]
    /\ UNCHANGED <<snapshot, copied, heap, valSet, other, replaced, tally, backing, validatorMu,
                   threads, chain>>

ErrorsGetState ==
    \E key \in Keys, f \in Failing({"open", "read", "decode"}) :
        LET r == GetState(stateObject, db, key, f)
        IN  Failed("GetState", f, r.o, journal, r.d, r.ret)

ErrorsSetState ==
    \E key \in Keys, value \in {zeroWord, <<0, 1>>}, f \in Failing({"read"}) :
        LET r == SetState(stateObject, journal, db, key, value, f)
        IN  Failed("SetState", f, r.o, r.j, r.d, NilErr)

ErrorsCommitStorageTrie ==
    \E f \in Failing({"open", "write", "commit"}) :
        LET r == CommitStorageTrie(stateObject, db, f)
        IN  Failed("CommitStorageTrie", f, r.o, journal, r.d, r.ret)

ErrorsCode ==
    \E f \in Failing({"code"}) :
        LET r == Code(stateObject, db, f)
        IN  Failed("Code", f, r.o, journal, r.d, NilErr)

NextErrors ==
    \/ ErrorsGetState
    \/ ErrorsSetState
    \/ ErrorsCommitStorageTrie
    \/ ErrorsCode

SpecErrors == InitErrors /\ [][NextErrors]_vars

(* ------------------------------ range query ---------------------------- *)
\* a *rpc.BlockNumber: nil, or a pointer to a number
NilNumber == <<>>
Pointer(n) == <<n>>

\* rpc.LatestBlockNumber and rpc.PendingBlockNumber
LatestBlockNumber == -1
PendingBlockNumber == -2

\* the largest end - start of a range
RequestedBlocksLimit == 50

errRangeNil == "range values should not be nil"
errStartNotPositive == "start block number should be positive"
errEndLargetThanLatest == "end block number should be smaller than the latest block number"
errStartLargerThanEnd == "start should be smaller than end"
errRequestedBlocksTooLarge == "number of requested blocks should be smaller than 50"

\* the digits of fmt.Sprintf("%x", i), most significant first
RECURSIVE hexDigits(_)
hexDigits(i) == IF i < 16 THEN <<i>> ELSE Append(hexDigits(i \div 16), i % 16)

\* fmt.Sprintf("0x%x", i): the prefix and the digits
strIdx(i) == <<"0x">> \o hexDigits(i)

\* GetBlockWithConsensusInfoByNumber(&blockNum) inside the range: the block's
\* output, or an error when the block or its consensus information cannot
\* be had
GetBlockWithConsensusInfoByNumber(c, blockNum) ==
    IF blockNum > c.head \/ blockNum \in c.unreadable
    THEN [b |-> "nil", err |-> "error"]
    ELSE [b |-> <<"block", blockNum>>, err |-> NoError]

\* the loop that gathers the blocks s..e
gather(c, s, e) ==
    LET idx == {strIdx(i) : i \in s..e}
        number(k) == CHOOSE i \in s..e : strIdx(i) = k
    IN  [k \in idx |-> LET got == GetBlockWithConsensusInfoByNumber(c, number(k))
                       IN  IF got.err # NoError THEN <<"nil">> ELSE got.b]

NoBlocks == "nil"

\* the range query that compares start with end before end with the chain
GetBlockWithConsensusInfoByNumberRange_startFirst(c, start, end) ==
    IF start = NilNumber \/ end = NilNumber THEN [blocks |-> NoBlocks, err |-> errRangeNil]
    ELSE LET s == start[1]
             e == end[1]
             eChain == c.head
         IN  IF s < 0 THEN [blocks |-> NoBlocks, err |-> errStartNotPositive]
             ELSE IF s > e THEN [blocks |-> NoBlocks, err |-> errStartLargerThanEnd]
             ELSE IF e > eChain THEN [blocks |-> NoBlocks, err |-> errEndLargetThanLatest]
             ELSE IF (e - s) > RequestedBlocksLimit
             THEN [blocks |-> NoBlocks, err |-> errRequestedBlocksTooLarge]
             ELSE [blocks |-> gather(c, s, e), err |-> NoError]

GetBlockWithConsensusInfoByNumberRange(c, start, end) ==
    IF start = NilNumber \/ end = NilNumber THEN [blocks |-> NoBlocks, err |-> errRangeNil]
    ELSE LET s == start[1]
             e == end[1]
             eChain == c.head
         IN  IF s < 0 THEN [blocks |-> NoBlocks, err |-> errStartNotPositive]
             ELSE IF e > eChain THEN [blocks |-> NoBlocks, err |-> errEndLargetThanLatest]
             ELSE IF s > e THEN [blocks |-> NoBlocks, err |-> errStartLargerThanEnd]
             ELSE IF (e - s) > RequestedBlocksLimit
             THEN [blocks |-> NoBlocks, err |-> errRequestedBlocksTooLarge]
             ELSE [blocks |-> gather(c, s, e), err |-> NoError]

\* the numbers a caller passes: nil, latest and pending, and the numbers up
\* to one past the largest head
BlockNumbers == {NilNumber} \cup {Pointer(n) : n \in PendingBlockNumber..(MaxHead + 1)}

\* a chain of any length; block 1 is readable or not
InitRange ==
    \E head \in 0..MaxHead, unreadable \in {{}, {1}} :
        /\ chain = [head |-> head, unreadable |-> unreadable]
        /\ last = NoCall
        /\ stateObject = NoState
        /\ journal = NoState
        /\ db = NoState
        /\ snapshot = NoState
        /\ copied = NoState
        /\ heap = <<>>
        /\ valSet = NoCouncil
        /\ other = NoCouncil
        /\ replaced = 0
        /\ tally = NoTally
        /\ backing = NoBacking
        /\ validatorMu = Unlocked
        /\ threads = NoThreads

\* a range query on the chain as it is; last keeps the arguments and what
\* was returned
CallGetBlockWithConsensusInfoByNumberRange ==
    /\ last = NoCall
    /\ \E start \in BlockNumbers, end \in BlockNumbers :
           LET r == GetBlockWithConsensusInfoByNumberRange(chain, start, end)
           IN  last' = [op |-> "GetBlockWithConsensusInfoByNumberRange", start |-> start,
                        end |-> end, blocks |-> r.blocks, err |-> r.err]
    /\ UNCHANGED <<chain, heap, valSet, other, replaced, tally, backing, validatorMu, threads, stateVars>>

\* the chain gets its next block; the answer to the last query is forgotten
InsertBlock ==
    /\ chain.head < MaxHead
    /\ chain' = [chain EXCEPT !.head = @ + 1]
    /\ last' = NoCall
    /\ UNCHANGED <<heap, valSet, other, replaced, tally, backing, validatorMu, threads, stateVars>>

NextRange ==
    \/ CallGetBlockWithConsensusInfoByNumberRange
    \/ InsertBlock

SpecRange == InitRange /\ [][NextRange]_vars

(* --------------------------- snapshot recovery ------------------------- *)
\* what a call without a result does: it returns, or it panics
Completed == [kind |-> "ok"]
NilDereference == [kind |-> "panic"]

\* RecoverWeightedCouncilProposer(valSet, proposerAddrs): every round of the
\* loop evaluates val.Address() for its Trace log, which panics on the nil
\* validator of an unknown address before proposers is assigned
RecoverWeightedCouncilProposer(h, s, proposerAddrs) ==
    LET proposers == [i \in 1..Len(proposerAddrs) |-> getByAddress(h, s, proposerAddrs[i]).val]
    IN  IF \E i \in 1..Len(proposers) : proposers[i] = Nil
        THEN [h |-> h, s |-> s, ret |-> NilDereference]
        ELSE [h |-> h, s |-> [s EXCEPT !.proposers = proposers], ret |-> Completed]

\* address lists a caller recovers proposers from: none, the validators'
\* addresses and their reverse, an unknown address alone, after the
\* validators' and before them
RecoverLists(h, s) ==
    LET addrs == Addresses(h, s.validators)
    IN  {<<>>, addrs, Reverse(addrs), <<MaxCouncil + 1>>,
         addrs \o <<MaxCouncil + 1>>, <<MaxCouncil + 1>> \o addrs}

\* RecoverWeightedCouncilProposer(valSet, proposerAddrs); before is the
\* proposers sequence the call found
CallRecoverWeightedCouncilProposer ==
    \E proposerAddrs \in RecoverLists(heap, valSet) :
        LET r == RecoverWeightedCouncilProposer(heap, valSet, proposerAddrs)
            c == collect(r.h, r.s, other)
        IN  /\ heap' = c.h
            /\ valSet' = c.s
            /\ other' = c.o
            /\ last' = [op |-> "RecoverWeightedCouncilProposer", proposerAddrs |-> proposerAddrs,
                        ret |-> r.ret, before |-> Addresses(heap, valSet.proposers)]
            /\ UNCHANGED <<replaced, tally, backing, validatorMu, threads, stateVars, chain>>

NextRecover == CallRecoverWeightedCouncilProposer

SpecRecover == InitQuery /\ [][NextRecover]_vars

(* ------------------------------- storage ------------------------------- *)
\* the storage keys of these runs: one more than Keys, so that a key is
\* written while another is pending or committed
StorageKeys == 1..(MaxKey + 1)

StorageSetState ==
    \E key \in StorageKeys, value \in Words :
        LET r == SetState(stateObject, journal, db, key, value, {})
        IN  Called("SetState", <<key, value>>, r.o, r.j, r.d, NilErr)

StorageCommitStorageTrie ==
    LET r == CommitStorageTrie(stateObject, db, {})
    IN  Called("CommitStorageTrie", <<>>, r.o, journal, r.d, r.ret)

StorageGetState ==
    \E key \in StorageKeys :
        LET r == GetState(stateObject, db, key, {})
        IN  Called("GetState", <<key>>, r.o, journal, r.d, r.ret)

NextStorage ==
    \/ StorageSetState
    \/ StorageCommitStorageTrie
    \/ StorageGetState

\* GetState, SetState and CommitStorageTrie calls on an object as created,
\* with a database that does not fail
SpecStorage == InitCommit /\ [][NextStorage]_vars

(* ------------------------------- deepCopy ------------------------------ *)
\* deepCopy: a new object with a copy of the account, of the storage trie and
\* of dirtyStorage, which is what the copy's cachedStorage is filled with too;
\* dbErr is not taken over
deepCopy(o) ==
    [newObject(o.address, o.account) EXCEPT
        !.storageTrie   = o.storageTrie,
        !.code          = o.code,
        !.dirtyStorage  = o.dirtyStorage,
        !.cachedStorage = o.dirtyStorage,
        !.suicided      = o.suicided,
        !.dirtyCode     = o.dirtyCode,
        !.deleted       = o.deleted]

\* what a reader gets from an object: GetState for every key, the balance
\* and the nonce
reads(o, d) ==
    [storage |-> [k \in StorageKeys |-> GetState(o, d, k, {}).ret],
     balance |-> o.account.balance, nonce |-> o.account.nonce]

\* an object as created; no copy yet
InitDeepCopy ==
    \E o \in Objects :
        /\ stateObject = o
        /\ journal = NoJournal
        /\ db = TheDatabase
        /\ snapshot = <<>>
        /\ copied = <<>>
        /\ last = [op |-> "newObject", calls |-> <<>>]
        /\ chain = NoState
        /\ heap = <<>>
        /\ valSet = NoCouncil
        /\ other = NoCouncil
        /\ replaced = 0
        /\ tally = NoTally
        /\ backing = NoBacking
        /\ validatorMu = Unlocked
        /\ threads = NoThreads

\* one of the first three calls on the object, before it is copied, returns
BeforeCopy(op, o, j, d) ==
    /\ copied = <<>>
    /\ Len(last.calls) \in {0, 1, 2}
    /\ stateObject' = o
    /\ journal' = j
    /\ db' = d
    /\ last' = [op |-> op, calls |-> Append(last.calls, op)]
    /\ UNCHANGED <<snapshot, copied, heap, valSet, other, replaced, tally, backing, validatorMu,
                   threads, chain>>

BeforeCopySetState ==
    \E key \in StorageKeys, value \in {zeroWord, <<0, 1>>} :
        LET r == SetState(stateObject, journal, db, key, value, {})
        IN  BeforeCopy("SetState", r.o, r.j, r.d)

BeforeCopyGetState ==
    \E key \in StorageKeys :
        LET r == GetState(stateObject, db, key, {})
        IN  BeforeCopy("GetState", r.o, journal, r.d)

\* the dirty storage is flushed to the trie, whose writes succeed or fail
BeforeCopyCommitStorageTrie ==
    \E f \in Failing({"write"}) :
        LET r == CommitStorageTrie(stateObject, db, f)
        IN  BeforeCopy("CommitStorageTrie", r.o, journal, r.d)

BeforeCopySetBalance ==
    \E amount \in 1..MaxBalance :
        LET r == SetBalance(stateObject, journal, amount)
        IN  BeforeCopy("SetBalance", r.o, r.j, db)

BeforeCopySetCode ==
    \E code \in Codes :
        LET r == SetCode(stateObject, journal, db, code, code, {})
        IN  BeforeCopy("SetCode", r.o, r.j, r.d)

BeforeCopyMarkSuicided ==
    BeforeCopy("markSuicided", markSuicided(stateObject), journal, db)

\* deepCopy(db) with a new StateDB, whose journal is empty
DoDeepCopy ==
    /\ copied = <<>>
    /\ copied' = <<[o |-> deepCopy(stateObject), j |-> NoJournal]>>
    /\ last' = [op |-> "deepCopy", calls |-> last.calls]
    /\ UNCHANGED <<stateObject, journal, db, snapshot, heap, valSet, other, replaced, tally,
                   backing, validatorMu, threads, chain>>

\* the objects a call after the copy runs on
CopyTargets == {"self", "copy"}

\* the first call after the copy returns, on the object or on its copy; kept
\* is what a reader got from the one the call was not made on
AfterCopy(op, target, o, j, d) ==
    /\ last.op = "deepCopy"
    /\ stateObject' = (IF target = "self" THEN o ELSE stateObject)
    /\ journal' = (IF target = "self" THEN j ELSE journal)
    /\ copied' = (IF target = "copy" THEN <<[o |-> o, j |-> j]>> ELSE copied)
    /\ db' = d
    /\ last' = [op |-> op, target |-> target, calls |-> last.calls,
                kept |-> reads(IF target = "self" THEN copied[1].o ELSE stateObject, db)]
    /\ UNCHANGED <<snapshot, heap, valSet, other, replaced, tally, backing, validatorMu,
                   threads, chain>>

\* the object and journal of a target
objectOf(target) == IF target = "self" THEN stateObject ELSE copied[1].o
journalOf(target) == IF target = "self" THEN journal ELSE copied[1].j

AfterCopySetState ==
    /\ last.op = "deepCopy"
    /\ \E target \in CopyTargets, key \in StorageKeys, value \in Words :
           LET r == SetState(objectOf(target), journalOf(target), db, key, value, {})
           IN  AfterCopy("SetState", target, r.o, r.j, r.d)

AfterCopySetBalance ==
    /\ last.op = "deepCopy"
    /\ \E target \in CopyTargets, amount \in 0..MaxBalance :
           LET r == SetBalance(objectOf(target), journalOf(target), amount)
           IN  AfterCopy("SetBalance", target, r.o, r.j, db)

AfterCopySetNonce ==
    /\ last.op = "deepCopy"
    /\ \E target \in CopyTargets, nonce \in 1..2 :
           LET r == SetNonce(objectOf(target), journalOf(target), nonce)
           IN  AfterCopy("SetNonce", target, r.o, r.j, db)

NextDeepCopy ==
    \/ BeforeCopySetState
    \/ BeforeCopyGetState
    \/ BeforeCopyCommitStorageTrie
    \/ BeforeCopySetBalance
    \/ BeforeCopySetCode
    \/ BeforeCopyMarkSuicided
    \/ DoDeepCopy
    \/ AfterCopySetState
    \/ AfterCopySetBalance
    \/ AfterCopySetNonce

SpecDeepCopy == InitDeepCopy /\ [][NextDeepCopy]_vars

(* ------------------------ SubList and other threads -------------------- *)
\* GetProposer: loads the proposer, without validatorMu
GetProposer(s) == s.proposer

\* SubList when no other thread runs between its GetProposer and the
\* SubListWithProposer it calls
SubList(h, s, prevHash, round) ==
    SubListWithProposer(h, s, prevHash, h[GetProposer(s)].address, round)

\* how a call ended and the addresses of the list it returned
outcomeOf(h, r) == [kind |-> r.kind, list |-> Addresses(h, r.list)]

\* a council of three validators or more with a committee smaller than it
InitSubList ==
    \E n \in 3..MaxCouncil, k \in 2..MaxSubSize, withWeights \in BOOLEAN :
        LET c == newCouncil(n, withWeights, k, MaxBlock, 0)
        IN  /\ k < n
            /\ heap = c.h
            /\ valSet = c.s
            /\ other = NoCouncil
            /\ last = NoCall
            /\ replaced = 0
            /\ tally = NoTally
            /\ backing = NoBacking
            /\ validatorMu = Unlocked
            /\ threads = NoThreads
            /\ WithoutState

\* a thread calls SubList(prevHash, view) and has evaluated
\* valSet.GetProposer().Address(); passed keeps, for every state of the set
\* since, what SubList gives on that state
SubListLoadsProposer ==
    /\ last = NoCall
    /\ \E prevHash \in Hashes, round \in Rounds :
           last' = [op |-> "SubList", pc |-> "SubListWithProposer", prevHash |-> prevHash,
                    round |-> round, proposer |-> heap[GetProposer(valSet)].address,
                    passed |-> <<outcomeOf(heap, SubList(heap, valSet, prevHash, round))>>]
    /\ UNCHANGED <<heap, valSet, other, replaced, tally, backing, validatorMu, threads, stateVars, chain>>

\* another thread's call returns while the SubList thread is about to call
\* SubListWithProposer (the first or second such call)
Meanwhile(r) ==
    LET c == collect(r.h, r.s, other)
    IN  /\ last.op = "SubList"
        /\ last.pc = "SubListWithProposer"
        /\ Len(last.passed) \in {1, 2}
        /\ heap' = c.h
        /\ valSet' = c.s
        /\ other' = c.o
        /\ last' = [last EXCEPT !.passed =
                        Append(@, outcomeOf(c.h, SubList(c.h, c.s, last.prevHash, last.round)))]
        /\ UNCHANGED <<replaced, tally, backing, validatorMu, threads, stateVars, chain>>

MeanwhileCalcProposer ==
    \E lastProposer \in 1..MaxCouncil \cup {ZeroAddr}, round \in Rounds :
        Meanwhile(CalcProposer(heap, valSet, lastProposer, round))

MeanwhileRemoveValidator ==
    \E address \in 1..MaxCouncil :
        Meanwhile(RemoveValidator(heap, valSet, address))

MeanwhileRefresh ==
    \E hash \in Hashes, blockNum \in Blocks, info \in UnstakedInfos \cup StakedInfos :
        Meanwhile(Refresh(heap, valSet, hash, blockNum, info))

\* the SubList thread runs SubListWithProposer, under the read lock, with the
\* proposer address it loaded, and returns
SubListReturns ==
    /\ last.op = "SubList"
    /\ last.pc = "SubListWithProposer"
    /\ last' = [last EXCEPT !.pc = "returned"] @@
               [ret |-> outcomeOf(heap, SubListWithProposer(heap, valSet, last.prevHash,
                                                             last.proposer, last.round))]
    /\ UNCHANGED <<heap, valSet, other, replaced, tally, backing, validatorMu, threads, stateVars, chain>>

NextSubList ==
    \/ SubListLoadsProposer
    \/ MeanwhileCalcProposer
    \/ MeanwhileRemoveValidator
    \/ MeanwhileRefresh
    \/ SubListReturns

SpecSubList == InitSubList /\ [][NextSubList]_vars

(* ------------------------------ IsProposer ----------------------------- *)
\* reflect.DeepEqual of two validators: both nil, or both weightedValidators
\* with equal address, reward address, voting power and weight
DeepEqual(h, v1, v2) ==
    IF v1 = Nil \/ v2 = Nil THEN v1 = v2 ELSE h[v1] = h[v2]

\* IsProposer(address); GetProposer panics when no proposer was ever stored
IsProposer(h, s, address) ==
    LET val == getByAddress(h, s, address).val
    IN  IF GetProposer(s) = Nil THEN [kind |-> "panic", value |-> FALSE]
        ELSE [kind |-> "ok", value |-> DeepEqual(h, GetProposer(s), val)]

\* a call that changes the set returns; what IsProposer answered is forgotten
Changed(r) ==
    LET c == collect(r.h, r.s, other)
    IN  /\ heap' = c.h
        /\ valSet' = c.s
        /\ other' = c.o
        /\ last' = NoCall
        /\ UNCHANGED <<replaced, tally, backing, validatorMu, threads, stateVars, chain>>

ChangedByCalcProposer ==
    \E lastProposer \in Addr \cup {ZeroAddr}, round \in Rounds :
        Changed(CalcProposer(heap, valSet, lastProposer, round))

ChangedByAddValidator ==
    \E address \in Addr : Changed(AddValidator(heap, valSet, address))

ChangedByRemoveValidator ==
    \E address \in Addr : Changed(RemoveValidator(heap, valSet, address))

ChangedByRefresh ==
    \E hash \in Hashes, blockNum \in Blocks, info \in UnstakedInfos \cup StakedInfos :
        Changed(Refresh(heap, valSet, hash, blockNum, info))

\* IsProposer(address) on the set as it is
CallIsProposer ==
    /\ last = NoCall
    /\ \E address \in Addr \cup {ZeroAddr} :
           last' = [op |-> "IsProposer", address |-> address,
                    ret |-> IsProposer(heap, valSet, address)]
    /\ UNCHANGED <<heap, valSet, other, replaced, tally, backing, validatorMu, threads, stateVars, chain>>

NextIsProposer ==
    \/ ChangedByCalcProposer
    \/ ChangedByAddValidator
    \/ ChangedByRemoveValidator
    \/ ChangedByRefresh
    \/ CallIsProposer

\* a council as constructed and any calls on it
SpecIsProposer == Init /\ [][NextIsProposer]_vars

(* --------------------------- snapshot round trip ----------------------- *)
\* GetWeightedCouncilData(valSet) of a council with the weighted random
\* policy: the validators' addresses, reward addresses, voting powers and
\* weights in the order of validators, the proposers' addresses in the order
\* of proposers, and proposersBlockNum
GetWeightedCouncilData(h, s) ==
    [validators        |-> [i \in 1..Len(s.validators) |-> h[s.validators[i]].address],
     rewardAddrs       |-> [i \in 1..Len(s.validators) |-> h[s.validators[i]].rewardAddress],
     votingPowers      |-> [i \in 1..Len(s.validators) |-> h[s.validators[i]].votingPower],
     weights           |-> [i \in 1..Len(s.validators) |-> h[s.validators[i]].weight],
     proposers         |-> [i \in 1..Len(s.proposers) |-> h[s.proposers[i]].address],
     proposersBlockNum |-> s.proposersBlockNum]

\* a call on the council before its data is exported: what was rebuilt from
\* an earlier export is dropped
BeforeExport(r) ==
    LET c == collect(r.h, r.s, NoCouncil)
    IN  /\ heap' = c.h
        /\ valSet' = c.s
        /\ other' = NoCouncil
        /\ last' = NoCall
        /\ UNCHANGED <<tally, backing, validatorMu, threads, stateVars, chain>>

ExportAfterCalcProposer ==
    \E lastProposer \in Addr \cup {ZeroAddr}, round \in Rounds :
        /\ BeforeExport(CalcProposer(heap, valSet, lastProposer, round))
        /\ UNCHANGED replaced

ExportAfterAddValidator ==
    \E address \in Addr :
        /\ BeforeExport(AddValidator(heap, valSet, address))
        /\ UNCHANGED replaced

ExportAfterRemoveValidator ==
    \E address \in Addr :
        /\ BeforeExport(RemoveValidator(heap, valSet, address))
        /\ UNCHANGED replaced

ExportAfterReplaceValidators ==
    /\ replaced < MaxReplace
    /\ replaced' = replaced + 1
    /\ \E vals \in ReplaceLists(valSet) :
           BeforeExport(ReplaceValidators(heap, valSet, vals))

ExportAfterRefresh ==
    \E hash \in Hashes, blockNum \in Blocks, info \in UnstakedInfos \cup StakedInfos :
        /\ BeforeExport(Refresh(heap, valSet, hash, blockNum, info))
        /\ UNCHANGED replaced

\* the council is exported with GetWeightedCouncilData, a new council is
\* built from the exported lists with NewWeightedCouncil (the committee size
\* and block number of the exported council) and its proposers are recovered
\* from the exported proposer addresses; other is the new council, data what
\* was exported and ret how RecoverWeightedCouncilProposer ended
SnapshotRoundTrip ==
    /\ last = NoCall
    /\ LET data    == GetWeightedCouncilData(heap, valSet)
           built   == NewWeightedCouncil(data.validators, data.rewardAddrs, data.votingPowers,
                                         data.weights, valSet.subSize, valSet.blockNum,
                                         data.proposersBlockNum)
           rebuilt == RecoverWeightedCouncilProposer(built.h, built.s, data.proposers)
           c       == collect(heap \o rebuilt.h, valSet, shifted(rebuilt.s, Len(heap)))
       IN  /\ heap' = c.h
           /\ valSet' = c.s
           /\ other' = c.o
           /\ last' = [op |-> "SnapshotRoundTrip", data |-> data, ret |-> rebuilt.ret]
    /\ UNCHANGED <<replaced, tally, backing, validatorMu, threads, stateVars, chain>>

NextSnapshot ==
    \/ ExportAfterCalcProposer
    \/ ExportAfterAddValidator
    \/ ExportAfterRemoveValidator
    \/ ExportAfterReplaceValidators
    \/ ExportAfterRefresh
    \/ SnapshotRoundTrip

\* a council as constructed, any calls on it and its round trip through the
\* exported lists
SpecSnapshot == Init /\ [][NextSnapshot]_vars


(* ------------------------------- claims -------------------------------- *)
addressOf(h, v) == h[v].address

SumWeights(h, s) == sumSeq([i \in 1..Len(s.validators) |-> h[s.validators[i]].weight])

\* proposers holds every validator weight times, or once when all weights are 0
ProposersMatchWeights(h, s) ==
    IF SumWeights(h, s) > 0
    THEN /\ Len(s.proposers) = SumWeights(h, s)
         /\ \A i \in 1..Len(s.validators) :
              Count(s.proposers, s.validators[i]) = h[s.validators[i]].weight
    ELSE /\ Len(s.proposers) = Len(s.validators)
         /\ \A i \in 1..Len(s.validators) : Count(s.proposers, s.validators[i]) = 1

\* C1 (as claimed): in every reachable state the validators list is strictly
\* sorted by address, so it holds no address twice.
C1_ValidatorsStrictlySorted ==
    \A i \in 1..(Len(valSet.validators) - 1) :
        addressOf(heap, valSet.validators[i]) < addressOf(heap, valSet.validators[i + 1])

\* C2 (as claimed): in every reachable state every element of proposers has
\* the address of some validator of the list.
C2_ProposersAreValidators ==
    \A i \in 1..Len(valSet.proposers) :
        \E j \in 1..Len(valSet.validators) :
            addressOf(heap, valSet.validators[j]) = addressOf(heap, valSet.proposers[i])

\* C3 (as claimed): in every reachable state in which a proposer has been
\* stored, it has the address of a validator of the list or, when the list is
\* empty, it is the validator CalcProposer synthesizes from lastProposer
\* (voting power 0, weight 0, zero reward address).
C3_ProposerIsValidator ==
    valSet.proposer # Nil =>
        IF Len(valSet.validators) > 0
        THEN \E j \in 1..Len(valSet.validators) :
                addressOf(heap, valSet.validators[j]) = addressOf(heap, valSet.proposer)
        ELSE /\ heap[valSet.proposer].votingPower = 0
             /\ heap[valSet.proposer].weight = 0
             /\ heap[valSet.proposer].rewardAddress = ZeroAddr

distinctAddresses(h, list) ==
    \A i, j \in 1..Len(list) : i # j => addressOf(h, list[i]) # addressOf(h, list[j])

strictlySorted(h, list) ==
    \A i \in 1..(Len(list) - 1) : addressOf(h, list[i]) < addressOf(h, list[i + 1])

hasAddress(h, list, addr) == \E i \in 1..Len(list) : addressOf(h, list[i]) = addr

\* some entry of proposers has another address than addr: the selector can
\* produce a next proposer with a different address
selectorCanProduceOther(h, s, addr) ==
    \E i \in 1..Len(s.proposers) : addressOf(h, s.proposers[i]) # addr

\* k validators with pairwise different addresses, the proposer first and,
\* from two on, another address second
committeeOf(h, ret, k, proposer) ==
    /\ ret.kind = "ok"
    /\ Len(ret.list) = k
    /\ distinctAddresses(h, ret.list)
    /\ k >= 1 => addressOf(h, ret.list[1]) = proposer
    /\ k >= 2 => addressOf(h, ret.list[2]) # addressOf(h, ret.list[1])

\* a set as construction, AddValidator, RemoveValidator and Refresh leave it:
\* the validators strictly sorted by address, every proposer a validator
wellFormed(h, s) ==
    /\ strictlySorted(h, s.validators)
    /\ \A i \in 1..Len(s.proposers) :
           hasAddress(h, s.validators, addressOf(h, s.proposers[i]))

\* C5 (as claimed, read in its favour: a well-formed set, 1 <= k, and the
\* proposer address a validator's): for subSize = k <= size,
\* SubListWithProposer returns exactly k pairwise distinct validators, the
\* given proposer first and a different validator second, provided the
\* selector can produce a next proposer with a different address.
C5_SubListStartsWithProposer ==
    ( /\ last.op = "SubListWithProposer"
      /\ wellFormed(heap, valSet)
      /\ valSet.subSize >= 1
      /\ valSet.subSize <= Len(valSet.validators)
      /\ hasAddress(heap, valSet.validators, last.proposer)
      /\ valSet.subSize >= 2 => selectorCanProduceOther(heap, valSet, last.proposer) )
    => committeeOf(heap, last.ret, valSet.subSize, last.proposer)

\* C5 (amended): for a set whose validators are strictly sorted and whose
\* proposers all are validators, with 1 <= subSize = k < size and a proposer
\* address of a validator, SubListWithProposer returns exactly k validators of
\* the set with pairwise different addresses, the proposer first and a
\* different one second, provided the selector can produce a next proposer
\* with a different address; with subSize = 1 it returns exactly [proposer].
\* With size <= subSize it returns the whole validators list in its order.
C5_SubListOfSmallerCommittee ==
    last.op = "SubListWithProposer" =>
        /\ ( /\ wellFormed(heap, valSet)
             /\ valSet.subSize >= 1
             /\ valSet.subSize < Len(valSet.validators)
             /\ hasAddress(heap, valSet.validators, last.proposer)
             /\ valSet.subSize >= 2 => selectorCanProduceOther(heap, valSet, last.proposer) )
           => /\ committeeOf(heap, last.ret, valSet.subSize, last.proposer)
              /\ \A i \in 1..Len(last.ret.list) :
                    hasAddress(heap, valSet.validators, addressOf(heap, last.ret.list[i]))
        /\ Len(valSet.validators) <= valSet.subSize
           => last.ret = Returned(valSet.validators)

\* C5 witness: a committee of 3 out of 4 validators whose proposer is not the
\* first validator of the list.
C5_Witness ==
    /\ last.op = "SubListWithProposer"
    /\ Len(valSet.validators) = 4
    /\ valSet.subSize = 3
    /\ strictlySorted(heap, valSet.validators)
    /\ last.ret.kind = "ok"
    /\ Len(last.ret.list) = 3
    /\ addressOf(heap, last.ret.list[1]) = last.proposer
    /\ last.proposer # addressOf(heap, valSet.validators[1])
    /\ distinctAddresses(heap, last.ret.list)

\* C6 (as claimed): SubListWithProposer always terminates: when size >
\* subSize >= 2 and every entry of proposers has the address of the given
\* proposer (a validator), the call returns a committee with the proposer
\* again in slot 1.
C6_SubListReturnsDuplicate ==
    ( /\ last.op = "SubListWithProposer"
      /\ Len(valSet.validators) > valSet.subSize
      /\ valSet.subSize >= 2
      /\ hasAddress(heap, valSet.validators, last.proposer)
      /\ Len(valSet.proposers) > 0
      /\ ~selectorCanProduceOther(heap, valSet, last.proposer) )
    => /\ last.ret.kind = "ok"
       /\ Len(last.ret.list) = valSet.subSize
       /\ addressOf(heap, last.ret.list[2]) = addressOf(heap, last.ret.list[1])

\* C7 (as claimed): two sets with the same validators that run Refresh with
\* the same hash, blockNum and staking information end with the same
\* validators in the same order in proposers, whatever they held before.
C7_SameProposersAfterRefresh ==
    (last.op = "RefreshBoth" /\ ~last.isNil)
    => Addresses(heap, valSet.proposers) = Addresses(heap, other.proposers)

\* C7 (amended): ... provided neither set's proposersBlockNum was blockNum
\* already (such a set returns at once and keeps the proposers it has).
C7_SameProposersAfterRecomputation ==
    ( /\ last.op = "RefreshBoth"
      /\ ~last.isNil
      /\ last.pbn1 # last.blockNum
      /\ last.pbn2 # last.blockNum )
    => /\ Addresses(heap, valSet.proposers) = Addresses(heap, other.proposers)
       /\ valSet.proposersBlockNum = last.blockNum
       /\ other.proposersBlockNum = last.blockNum

\* C7 witness: two sets of two validators that had different weights before
\* hold the same weighted proposers after a Refresh with stakes.
C7_Witness ==
    /\ last.op = "RefreshBoth"
    /\ ~last.isNil
    /\ last.pbn1 # last.blockNum
    /\ last.pbn2 # last.blockNum
    /\ last.weights1 # last.weights2
    /\ Len(valSet.validators) = 2
    /\ Len(valSet.proposers) > Len(valSet.validators)
    /\ Addresses(heap, valSet.proposers) = Addresses(heap, other.proposers)
    /\ valSet.proposers # other.proposers

\* C8: when CalcProposer(lastProposer, round) is called twice in a row, the
\* proposer after the second call has the address it had after the first.
C8_CalcProposerIdempotent ==
    (last.op = "CalcProposer" /\ last.again)
    => /\ valSet.proposer # Nil
       /\ addressOf(heap, valSet.proposer) = last.first

\* C8 witness: the repeated call took the round-robin path (no proposers,
\* two validators or more) from a lastProposer that is a validator and moved
\* on from it.
C8_Witness ==
    /\ last.op = "CalcProposer"
    /\ last.again
    /\ Len(valSet.proposers) = 0
    /\ Len(valSet.validators) >= 2
    /\ hasAddress(heap, valSet.validators, last.lastProposer)
    /\ last.round >= 1
    /\ addressOf(heap, valSet.proposer) # last.lastProposer

\* the index (from 0) the claim gives for a round
claimedPicker(s, round) ==
    (s.blockNum + round - CalcProposerBlockNumber(s.blockNum + 1)) % Len(s.proposers)

\* C9: at a fixed blockNum CalcProposer(_, round) selects
\* proposers[(blockNum + round - CalcProposerBlockNumber(blockNum + 1)) mod L];
\* after L consecutive rounds every validator was chosen as often as it occurs
\* in proposers, and with weights 75, 20, 5 and the rounds 0..99 the validators
\* were chosen 75, 20 and 5 times.
C9_RoundsFollowProposers ==
    last.op = "CalcProposerRounds" =>
        /\ last.calls > 0 =>
              valSet.proposer =
                  valSet.proposers[claimedPicker(valSet, last.start + last.calls - 1) + 1]
        /\ last.calls = Len(valSet.proposers) =>
              \A i \in 1..Len(valSet.validators) :
                  tally[addressOf(heap, valSet.validators[i])]
                      = Count(valSet.proposers, valSet.validators[i])
        /\ ( /\ last.calls = 100
             /\ last.start = 0
             /\ [i \in 1..Len(valSet.validators) |-> heap[valSet.validators[i]].weight]
                    = <<75, 20, 5>> )
           => tally = <<75, 20, 5>>

\* C9 witness: the rounds 0..99 were run on the council of weights 75, 20, 5.
C9_Witness ==
    /\ last.op = "CalcProposerRounds"
    /\ last.calls = 100
    /\ last.start = 0
    /\ valSet.blockNum = 1
    /\ Len(valSet.proposers) = 100
    /\ [i \in 1..Len(valSet.validators) |-> heap[valSet.validators[i]].weight] = <<75, 20, 5>>
    /\ tally[1] = 75

\* the block is one of an honest chain: it is not the genesis block, its
\* header is sealed by the proposer CalcProposer yields on the snapshot for
\* the block's round, its extra data lists the committee SubListWithProposer
\* yields for that proposer, and every committed seal is a committee member's
honestBlock(h, s, lastProposer, block) ==
    LET c == consensusOf(h, s, block.parentHash, lastProposer, block.round)
    IN  /\ block.number > 0
        /\ block.signer = c.proposer
        /\ c.committee.kind = "ok"
        /\ block.validators = Addresses(h, c.committee.list)
        /\ \A i \in 1..Len(block.committedSeal) :
               block.committedSeal[i] \in Range(block.validators)

\* C10: for a block of an honest chain ValidateConsensusInfo returns
\* isValidProposer = isValidCommittee = isValidSeal = true.
C10_HonestBlockIsValid ==
    ( /\ last.op = "ValidateConsensusInfo"
      /\ honestBlock(heap, valSet, last.lastProposer, last.block) )
    => /\ last.ret.returned
       /\ last.ret.IsValidProposer
       /\ last.ret.IsValidCommittee
       /\ last.ret.IsValidSeal

\* C10 witness: an honest block was found valid whose committee of three is
\* not in address order and whose seals are in another order than the committee.
C10_Witness ==
    /\ last.op = "ValidateConsensusInfo"
    /\ honestBlock(heap, valSet, last.lastProposer, last.block)
    /\ Len(last.block.validators) = 3
    /\ Len(valSet.validators) = 4
    /\ last.block.validators # sortAddrs(last.block.validators)
    /\ Len(last.block.committedSeal) = 3
    /\ last.block.committedSeal # last.block.validators
    /\ last.ret.IsValidProposer /\ last.ret.IsValidCommittee /\ last.ret.IsValidSeal

\* C11 (as claimed): Copy returns a deep copy: a call of AddValidator,
\* RemoveValidator, ReplaceValidators, CalcProposer or Refresh on the copy
\* leaves the set's validators, proposers, proposer, proposersBlockNum and its
\* validators' weights and reward addresses as they were, and a call on the
\* set leaves those of the copy as they were.
C11_CopyIsDeep ==
    last.op # "Copy" => observed(heap, councilOf(IF last.target = "set" THEN "copy" ELSE "set")) = last.kept

\* C12 (as claimed): the list List() returned is snapshot-safe: its elements,
\* position by position, stay what they were when List() returned, whatever
\* AddValidator, RemoveValidator, ReplaceValidators and Refresh calls follow.
C12_ListIsSnapshotSafe ==
    backing.listed # <<>> => backing.listed[1].now = backing.listed[1].returned

\* two threads are about to access the same field, one of them writing
racing(t, u) ==
    /\ t # u
    /\ stepOf(t).do = "write"
    /\ stepOf(u).do \in {"read", "write"}
    /\ stepOf(u).field = stepOf(t).field

\* C13 (as claimed): in every interleaving every read of validators,
\* proposers, stakingInfo or blockNum is made by a thread that holds
\* validatorMu (shared or exclusive) and every write by a thread that holds it
\* exclusively, so no thread reads a field while another thread writes it.
C13_FieldsGuardedByLock ==
    /\ \A t \in Threads :
          /\ (stepOf(t).do = "read" /\ stepOf(t).field \in GuardedFields)
                => (holdsShared(t) \/ holdsExclusive(t))
          /\ (stepOf(t).do = "write" /\ stepOf(t).field \in GuardedFields)
                => holdsExclusive(t)
    /\ \A t, u \in Threads : ~racing(t, u)

\* the observed validators (records) hold the address
listsAddress(list, a) == \E i \in 1..Len(list) : list[i].address = a

\* the list without its k-th element
dropAt(list, k) == SubSeq(list, 1, k - 1) \o SubSeq(list, k + 1, Len(list))

\* both lists hold the same elements equally often
sameMultiset(l1, l2) ==
    /\ Len(l1) = Len(l2)
    /\ \A x \in Range(l1) \cup Range(l2) : Count(l1, x) = Count(l2, x)

\* observed validators in ascending order of their addresses
ascending(list) == \A i \in 1..(Len(list) - 1) : list[i].address <= list[i + 1].address

\* C14: AddValidator(a) returns false and changes nothing when a validator
\* with address a is present; otherwise it returns true, validators is the old
\* list plus one new validator (address a, zero reward address, voting power
\* 1000, weight 0) placed so that a sorted list stays sorted (the old
\* validators keep their order), and proposers, proposersBlockNum and the
\* proposer are what they were.
C14_AddValidatorContract ==
    last.op = "AddValidator" =>
        LET a   == last.args.address
            old == last.before
            new == observed(heap, valSet)
        IN  IF listsAddress(old.validators, a)
            THEN last.ret = FALSE /\ new = old
            ELSE /\ last.ret = TRUE
                 /\ \E k \in 1..Len(new.validators) :
                       /\ new.validators[k] = [address |-> a, rewardAddress |-> ZeroAddr,
                                                votingPower |-> 1000, weight |-> 0]
                       /\ sameMultiset(dropAt(new.validators, k), old.validators)
                       /\ ascending(old.validators)
                            => (dropAt(new.validators, k) = old.validators
                                /\ ascending(new.validators))
                 /\ new.proposers = old.proposers
                 /\ new.proposersBlockNum = old.proposersBlockNum
                 /\ new.proposer = old.proposer

\* C14 witness: a fifth validator was added whose address sorts between those
\* of the four validators; the proposers, not empty, are what they were.
C14_Witness ==
    /\ last.op = "AddValidator"
    /\ last.ret = TRUE
    /\ Len(last.before.validators) = 4
    /\ Len(valSet.validators) = 5
    /\ \E k \in 2..4 : heap[valSet.validators[k]].address = last.args.address
    /\ ascending(observed(heap, valSet).validators)
    /\ Len(valSet.proposers) > 0
    /\ observed(heap, valSet).proposers = last.before.proposers

\* the observed validators with another address than a, in their order
othersThan(list, a) == SelectSeq(list, LAMBDA v : v.address # a)

\* C15 (as claimed): RemoveValidator(a) returns false and changes nothing
\* when no validator has address a; otherwise it returns true and afterwards
\* no element of validators and no element of proposers has address a, while
\* the other entries of both sequences keep their relative order.
C15_RemoveValidatorContract ==
    last.op = "RemoveValidator" =>
        LET a   == last.args.address
            old == last.before
            new == observed(heap, valSet)
        IN  IF ~listsAddress(old.validators, a)
            THEN last.ret = FALSE /\ new = old
            ELSE /\ last.ret = TRUE
                 /\ ~listsAddress(new.validators, a)
                 /\ ~listsAddress(new.proposers, a)
                 /\ new.validators = othersThan(old.validators, a)
                 /\ new.proposers = othersThan(old.proposers, a)

\* the last two calls were AddValidator(a) and then RemoveValidator(a)
addedThenRemoved ==
    /\ last.op = "RemoveValidator"
    /\ last.prev.op = "AddValidator"
    /\ last.prev.args.address = last.args.address

\* C16 (as claimed): for any set and any address a, AddValidator(a) followed
\* by RemoveValidator(a) restores validators to the multiset it held before
\* the two calls.
C16_AddRemoveRestores ==
    addedThenRemoved
    => sameMultiset(observed(heap, valSet).validators, last.prev.before.validators)

\* C16 (amended): ... for any set and any address a that no validator of the
\* set has (AddValidator(a) returns true) ...; the restored list also is in
\* the order it had when it was sorted.  When a validator has address a
\* already, AddValidator(a) changes nothing and RemoveValidator(a) takes that
\* validator out.
C16_AddRemoveRestoresWithout ==
    addedThenRemoved =>
        LET old == last.prev.before.validators
            new == observed(heap, valSet).validators
        IN  IF listsAddress(old, last.args.address)
            THEN /\ ~last.prev.ret
                 /\ Len(new) = Len(old) - 1
            ELSE /\ last.prev.ret
                 /\ last.ret
                 /\ sameMultiset(new, old)
                 /\ ascending(old) => new = old

\* C16 witness: an address between those of three validators was added and
\* removed again.
C16_Witness ==
    /\ addedThenRemoved
    /\ last.prev.ret
    /\ Len(last.prev.before.validators) = 3
    /\ last.prev.before.validators[1].address < last.args.address
    /\ last.args.address < last.prev.before.validators[3].address
    /\ observed(heap, valSet).validators = last.prev.before.validators

\* the smallest c with 3 * c >= n: ceil(n / 3)
ceilThird(n) == CHOOSE c \in 0..n : 3 * c >= n /\ 3 * (c - 1) < n

\* C17: F() = ceil(n / 3) - 1 with n = min(size, subSize), and for n >= 1
\* this is the largest f with 3 * f + 1 <= n.
C17_FIsByzantineBound ==
    last.op = "F" =>
        LET size == Len(valSet.validators)
            n    == IF size < valSet.subSize THEN size ELSE valSet.subSize
        IN  /\ last.ret = ceilThird(n) - 1
            /\ n >= 1 => /\ 3 * last.ret + 1 <= n
                         /\ 3 * (last.ret + 1) + 1 > n

\* C17 witness: a committee of 4 out of 7 validators tolerates one fault.
C17_Witness ==
    /\ last.op = "F"
    /\ Len(valSet.validators) = 7
    /\ valSet.subSize = 4
    /\ last.ret = 1

\* weights, reward addresses, proposers and proposersBlockNum are what they
\* were before the last call
proposerSequenceRetained ==
    LET old == last.before
        new == observed(heap, valSet)
    IN  /\ new.proposers = old.proposers
        /\ new.proposersBlockNum = old.proposersBlockNum
        /\ new.validators = old.validators

\* C18 (as claimed): when no staking info is available for blockNum + 1,
\* Refresh(hash, blockNum) returns the skip-refresh error and proposers,
\* proposersBlockNum and every validator's weight and reward address are the
\* same as before the call.
C18_NoStakingInfoSkips ==
    (last.op = "Refresh" /\ last.args.isNil)
    => /\ last.ret = ErrSkipRefresh
       /\ proposerSequenceRetained

\* C18 (amended): ... Refresh(hash, blockNum) of a set that has a validator
\* and whose proposersBlockNum is not blockNum returns the skip-refresh error;
\* a set at blockNum already returns no error and a set without validators
\* the no-validator error.  In all three cases proposers, proposersBlockNum
\* and every validator's weight and reward address are the same as before.
C18_NoStakingInfoSkipsWhenAsked ==
    (last.op = "Refresh" /\ last.args.isNil)
    => /\ proposerSequenceRetained
       /\ last.ret = IF last.before.proposersBlockNum = last.args.blockNum THEN NoError
                     ELSE IF Len(last.before.validators) = 0 THEN ErrNoValidator
                     ELSE ErrSkipRefresh

\* C18 witness: a set with weighted proposers and a staking information lost
\* the staking information in a skipped Refresh and kept its proposers.
C18_Witness ==
    /\ last.op = "Refresh"
    /\ last.args.isNil
    /\ last.ret = ErrSkipRefresh
    /\ ~last.info.isNil
    /\ valSet.stakingInfo = NoStakingInfo
    /\ Len(valSet.proposers) > Len(valSet.validators)
    /\ observed(heap, valSet).proposers = last.before.proposers

\* C19 (as claimed): over any sequence of Refresh calls on one set, each
\* successful Refresh leaves proposersBlockNum greater than or equal to its
\* previous value.
C19_ProposersBlockNumMonotonic ==
    (last.op = "Refresh" /\ last.ret = NoError)
    => valSet.proposersBlockNum >= last.before.proposersBlockNum

\* C19 (amended): each successful Refresh(hash, blockNum) leaves
\* proposersBlockNum equal to blockNum and a failed one leaves it as it was,
\* so over a sequence of Refresh calls whose block numbers do not fall below
\* the set's proposersBlockNum each successful Refresh leaves
\* proposersBlockNum greater than or equal to its previous value.
C19_ProposersBlockNumFollowsBlockNum ==
    last.op = "Refresh" =>
        /\ last.ret = NoError => valSet.proposersBlockNum = last.args.blockNum
        /\ last.ret # NoError => valSet.proposersBlockNum = last.before.proposersBlockNum
        /\ (last.ret = NoError /\ last.args.blockNum >= last.before.proposersBlockNum)
              => valSet.proposersBlockNum >= last.before.proposersBlockNum

\* C19 witness: a successful Refresh at a later block moved proposersBlockNum
\* up and shuffled the proposers anew.
C19_Witness ==
    /\ last.op = "Refresh"
    /\ last.ret = NoError
    /\ last.args.blockNum > last.before.proposersBlockNum
    /\ valSet.proposersBlockNum = last.args.blockNum
    /\ Len(valSet.validators) >= 2
    /\ observed(heap, valSet).proposers # last.before.proposers

\* the last call was a Refresh of a set whose proposersBlockNum was blockNum
refreshedAtSameBlock ==
    /\ last.op = "Refresh"
    /\ last.before.proposersBlockNum = last.args.blockNum

\* C20: Refresh(hash, blockNum) called when proposersBlockNum = blockNum
\* returns no error and changes nothing (proposers, weights, reward addresses,
\* stakingInfo, proposersBlockNum), whatever the hash and the staking info
\* available; so a second Refresh at the same blockNum right after a
\* successful one changes nothing.
C20_RefreshAtSameBlockIsNoOp ==
    /\ refreshedAtSameBlock
          => /\ last.ret = NoError
             /\ observed(heap, valSet) = last.before
             /\ valSet.stakingInfo = last.info
    /\ ( /\ last.op = "Refresh"
         /\ last.prev.op = "Refresh"
         /\ last.prev.ret = NoError
         /\ last.prev.args.blockNum = last.args.blockNum )
          => /\ last.ret = NoError
             /\ observed(heap, valSet) = last.before
             /\ valSet.stakingInfo = last.info

\* C20 witness: after a successful Refresh with stakes, a second Refresh at
\* the same block with no staking info available left the weighted proposers
\* and the staking information in place.
C20_Witness ==
    /\ last.op = "Refresh"
    /\ last.prev.op = "Refresh"
    /\ last.prev.ret = NoError
    /\ ~last.prev.args.isNil
    /\ last.prev.args.blockNum = last.args.blockNum
    /\ last.prev.before.proposersBlockNum # last.args.blockNum
    /\ last.args.isNil
    /\ last.ret = NoError
    /\ ~valSet.stakingInfo.isNil
    /\ Len(valSet.proposers) > Len(valSet.validators)

\* a Refresh ran to its end: it was not short-circuited and returned no error
refreshedWithStakes ==
    last.op = "Refresh" /\ ~last.shortCircuited /\ last.ret = NoError

\* round(stake * 100 / total), half of a percent rounded up
roundedPercent(stake, total) ==
    CHOOSE w \in 0..100 : 2 * total * w <= 200 * stake + total /\ 200 * stake + total < 2 * total * (w + 1)

\* C21 (as claimed): after a successful Refresh without Gini compression and
\* with total stake > 0, each validator's weight is round(stake * 100 / total),
\* raised to 1 only when the validator's stake is nonzero (a validator with
\* zero stake keeps weight 0); when the total stake is 0 every weight is 0.
C21_WeightFlooredWhenStaked ==
    refreshedWithStakes =>
        \A i \in 1..Len(valSet.validators) :
            LET stake  == last.stakingAmounts[i]
                total  == last.totalStaking
                weight == heap[valSet.validators[i]].weight
            IN  /\ total = 0 => weight = 0
                /\ total > 0 /\ stake = 0 => weight = 0
                /\ total > 0 /\ stake > 0 =>
                       weight = IF roundedPercent(stake, total) = 0 THEN 1
                                ELSE roundedPercent(stake, total)

\* C21 (amended): after such a Refresh with total stake > 0, each validator's
\* weight is round(stake * 100 / total), raised to 1 whenever that is 0, so
\* a validator with zero stake has weight 1 too; when the total stake is 0
\* every weight is 0.
C21_WeightFlooredAlways ==
    refreshedWithStakes =>
        \A i \in 1..Len(valSet.validators) :
            LET stake  == last.stakingAmounts[i]
                total  == last.totalStaking
                weight == heap[valSet.validators[i]].weight
            IN  /\ total = 0 => weight = 0
                /\ total > 0 =>
                       weight = IF roundedPercent(stake, total) = 0 THEN 1
                                ELSE roundedPercent(stake, total)

\* a Refresh gave weight 1 to a validator without stake and to one whose
\* small stake rounds to 0
C21_Witness ==
    /\ refreshedWithStakes
    /\ last.totalStaking > 0
    /\ \E i, j \in 1..Len(valSet.validators) :
           /\ last.stakingAmounts[i] = 0 /\ heap[valSet.validators[i]].weight = 1
           /\ last.stakingAmounts[j] > 0 /\ roundedPercent(last.stakingAmounts[j], last.totalStaking) = 0
           /\ heap[valSet.validators[j]].weight = 1

\* the journal was reverted to the snapshot
reverted == last.op = "RevertToSnapshot"

roundTrip(op) ==
    LET n == Len(last.calls)
    IN  /\ last.op = op
        /\ n >= 3
        /\ last.calls[n - 2].op = "SetState"
        /\ last.calls[n - 1].op = "CommitStorageTrie"
        /\ last.calls[n - 2].args[1] = last.args[1]

\* C23: SetState(k, v) followed by CommitStorageTrie makes GetState(k) return
\* v, for zero and nonzero v, from the same object and from a fresh object
\* opened on the trie the commit committed (a program account's).
C23_CommitRoundTrip ==
    LET v == last.calls[Len(last.calls) - 2].args[2]
    IN  /\ roundTrip("GetState") => last.ret = v
        /\ roundTrip("GetStateFresh") /\ IsProgramAccount(stateObject) => last.ret = v

\* a fresh object read back a value with a leading zero byte that the commit
\* had written over another value of the trie
C23_Witness ==
    /\ roundTrip("GetStateFresh")
    /\ IsProgramAccount(stateObject)
    /\ last.calls[Len(last.calls) - 2].args[2] = <<0, 1>>
    /\ last.ret = <<0, 1>>
    /\ StoredTrie \in db.tries /\ stateObject.account.storageRoot # StoredTrie
    /\ stateObject.account.codeHash # emptyCodeHash

\* the last call was AddBalance(0) or SubBalance(0)
zeroAmount(op) == last.op = op /\ last.args = <<0>>

\* the entries the last call appended to the journal
appended == SubSeq(journal.entries, Len(last.before.j.entries) + 1, Len(journal.entries))

\* C24 (as claimed): AddBalance(0) and SubBalance(0) leave the balance
\* unchanged and append no balanceChange, but they still touch the account:
\* a touchChange is appended to the journal.
C24_ZeroAmountTouches ==
    zeroAmount("AddBalance") \/ zeroAmount("SubBalance") =>
        /\ stateObject.account.balance = last.before.o.account.balance
        /\ appended = <<[kind |-> "touchChange", account |-> stateObject.address]>>

\* C24 (amended): AddBalance(0) and SubBalance(0) leave the balance unchanged
\* and append no balanceChange; AddBalance(0) touches the account (appends a
\* touchChange) exactly when the account is empty, SubBalance(0) never does.
C24_ZeroAmountTouchesEmpty ==
    /\ zeroAmount("AddBalance") =>
           /\ stateObject = last.before.o
           /\ appended = IF empty(last.before.o)
                         THEN <<[kind |-> "touchChange", account |-> stateObject.address]>>
                         ELSE <<>>
    /\ zeroAmount("SubBalance") =>
           /\ stateObject = last.before.o
           /\ journal = last.before.j

\* AddBalance(0) touched the empty account of the precompile, after an entry
\* of another kind
C24_Witness ==
    /\ zeroAmount("AddBalance")
    /\ empty(last.before.o)
    /\ stateObject.address = ripemd
    /\ Len(journal.entries) >= 2
    /\ journal.entries[Len(journal.entries)].kind = "touchChange"
    /\ ripemd \in journal.dirties

\* C25: SetCode on an account that is not a program account returns
\* NotProgramAccount and leaves the state object and its journal as they
\* were: code, code hash and dirtyCode unchanged, no codeChange appended.
C25_SetCodeRejectedWithoutTrace ==
    last.op = "SetCode" /\ ~IsProgramAccount(last.before.o) =>
        /\ last.ret = ErrNotProgramAccount
        /\ stateObject = last.before.o
        /\ journal = last.before.j

\* C26: once a trie read, update, delete or open on a state object fails,
\* dbErr holds the first error from then on: later errors and later
\* successful operations neither replace nor clear it, and the next
\* CommitStorageTrie returns it without committing the storage trie or
\* changing the account's storage root.
C26_FirstErrorKept ==
    /\ stateObject.dbErr = last.first
    /\ last.op = "CommitStorageTrie" /\ last.first # NilErr =>
           /\ last.ret = last.first
           /\ stateObject.account.storageRoot = last.before.root
           /\ db.tries = last.before.tries

\* a trie operation failed, a later one failed too, one succeeded, and
\* CommitStorageTrie, with an entry to write, returned the first error
C26_Witness ==
    /\ last.op = "CommitStorageTrie"
    /\ last.calls = <<"GetState", "SetState", "SetState", "CommitStorageTrie">>
    /\ last.first = <<"trie", 1>>
    /\ db.failures = 2
    /\ last.ret = <<"trie", 1>>
    /\ IsProgramAccount(stateObject)
    /\ stateObject.storageTrie # <<stateObject.account.storageRoot>>

\* a range query returned
queried == last.op = "GetBlockWithConsensusInfoByNumberRange"

\* the map holds exactly one entry for each of the numbers
oneEntryEach(blocks, numbers) ==
    /\ Cardinality(DOMAIN blocks) = Cardinality(numbers)
    /\ \A i \in numbers : \E k \in DOMAIN blocks : k = strIdx(i)

\* C27: GetBlockWithConsensusInfoByNumberRange(start, end) returns an error
\* and no blocks when start or end is nil (RangeNil), start < 0
\* (StartNotPositive), end > latest block (EndLargerThanLatest), start > end
\* (StartLargerThanEnd) or end - start > 50 (RequestedBlocksTooLarge), the
\* checks applying in that order; otherwise it returns a map with exactly
\* one entry for each block number in [start, end].
C27_RangeChecksInOrder ==
    queried =>
        LET isNil == last.start = NilNumber \/ last.end = NilNumber
            s == last.start[1]
            e == last.end[1]
        IN  /\ last.err # NoError => last.blocks = NoBlocks
            /\ isNil => last.err = errRangeNil
            /\ ~isNil /\ s < 0 => last.err = errStartNotPositive
            /\ ~isNil /\ s >= 0 /\ e > chain.head => last.err = errEndLargetThanLatest
            /\ ~isNil /\ s >= 0 /\ e <= chain.head /\ s > e => last.err = errStartLargerThanEnd
            /\ ~isNil /\ s >= 0 /\ e <= chain.head /\ s <= e /\ e - s > 50 =>
                   last.err = errRequestedBlocksTooLarge
            /\ ~isNil /\ s >= 0 /\ e <= chain.head /\ s <= e /\ e - s <= 50 =>
                   /\ last.err = NoError
                   /\ oneEntryEach(last.blocks, s..e)

\* a query of more than sixteen blocks was answered, one of them unreadable
C27_Witness ==
    /\ queried
    /\ last.err = NoError
    /\ last.start = Pointer(0) /\ last.end = Pointer(20)
    /\ Cardinality(DOMAIN last.blocks) = 21
    /\ last.blocks[strIdx(1)] = <<"nil">>
    /\ last.blocks[strIdx(20)] = <<"block", 20>>

\* C28: every request GetBlockWithConsensusInfoByNumberRange accepts is
\* bounded to 50 blocks: the returned map never has more than 50 entries.
C28_AtMostFiftyBlocks ==
    queried /\ last.err = NoError => Cardinality(DOMAIN last.blocks) <= 50

\* the last call was a Refresh that was not short-circuited and returned no
\* error
refreshedProposers ==
    /\ last.op = "Refresh"
    /\ last.before.proposersBlockNum # last.args.blockNum
    /\ last.ret = NoError

\* C29: immediately after a Refresh(hash, blockNum) that was not
\* short-circuited and returned no error, proposersBlockNum = blockNum and
\* proposers is a permutation of the multiset that holds each validator of
\* the list Weight(v) times, or each exactly once when all weights are zero.
C29_RefreshedProposersArePermutation ==
    refreshedProposers =>
        LET total == SumWeights(heap, valSet)
            times(v) == IF total > 0 THEN heap[v].weight ELSE 1
        IN  /\ valSet.proposersBlockNum = last.args.blockNum
            /\ Len(valSet.proposers) = (IF total > 0 THEN total ELSE Len(valSet.validators))
            /\ \A v \in 1..Len(heap) :
                   Count(valSet.proposers, v) = Count(valSet.validators, v) * times(v)

\* a Refresh with stakes left three validators of weights 25, 75 and 1 in a
\* sequence of 101 proposers that is not in the order of the validators
C29_Witness ==
    /\ refreshedProposers
    /\ Len(valSet.validators) = 3
    /\ [i \in 1..3 |-> heap[valSet.validators[i]].weight] = <<25, 75, 1>>
    /\ Len(valSet.proposers) = 101
    /\ \E i \in 1..100 : heap[valSet.proposers[i]].address > heap[valSet.proposers[i + 1]].address

\* CalcProposer was the last call
calcProposerCalled == last.op = "CalcProposer"

\* the place (from 0) of lastProposer in validators, 0 when it has none
placeOf(h, s, lastProposer) ==
    IF lastProposer = ZeroAddr \/ ~hasAddress(h, s.validators, lastProposer) THEN 0
    ELSE CHOOSE i \in 0..(Len(s.validators) - 1) :
             /\ addressOf(h, s.validators[i + 1]) = lastProposer
             /\ \A j \in 0..(i - 1) : addressOf(h, s.validators[j + 1]) # lastProposer

\* C30: with no proposers but validators, CalcProposer(lastProposer, round)
\* sets the proposer to validators[(i + round) mod size], i the place of
\* lastProposer in validators or 0 when it is absent or the zero address;
\* with no validators either, the proposer is a fresh validator with the
\* address lastProposer and weight 0.
C30_RoundRobinFallback ==
    (calcProposerCalled /\ Len(valSet.proposers) = 0) =>
        IF Len(valSet.validators) > 0
        THEN valSet.proposer =
                 valSet.validators[((placeOf(heap, valSet, last.lastProposer) + last.round)
                                    % Len(valSet.validators)) + 1]
        ELSE /\ valSet.proposer # Nil
             /\ heap[valSet.proposer] = [address |-> last.lastProposer, rewardAddress |-> ZeroAddr,
                                         votingPower |-> 0, weight |-> 0]

\* C30 witness: the fallback counted on from a lastProposer that is not the
\* first validator and wrapped around the end of the list.
C30_Witness ==
    /\ calcProposerCalled
    /\ Len(valSet.proposers) = 0
    /\ Len(valSet.validators) >= 3
    /\ placeOf(heap, valSet, last.lastProposer) >= 1
    /\ last.round >= 1
    /\ placeOf(heap, valSet, last.lastProposer) + last.round >= Len(valSet.validators)
    /\ valSet.proposer = valSet.validators[1]

\* the other case of C30: no validators, the proposer is made from lastProposer
C30_NoValidators ==
    /\ calcProposerCalled
    /\ Len(valSet.validators) = 0
    /\ last.lastProposer # ZeroAddr
    /\ addressOf(heap, valSet.proposer) = last.lastProposer

\* C31: during Refresh a validator whose address is a council node address
\* receives that staking entry's reward address and staking amount, every
\* other validator the zero reward address and amount 0; each staking entry
\* that matches no validator's node address is added exactly once to the
\* first validator in list order whose reward address equals the entry's
\* (and is dropped when no validator has it).
C31_StakesAttributed ==
    refreshedWithStakes =>
        LET info == last.info
            vals == valSet.validators
            entries == 1..Len(info.CouncilNodeAddrs)
            entryOf(i) == {e \in entries : info.CouncilNodeAddrs[e] = addressOf(heap, vals[i])}
            ownEntry(i) == CHOOSE e \in entryOf(i) : \A o \in entryOf(i) : e <= o
            ownReward(i) == IF entryOf(i) = {} THEN ZeroAddr ELSE info.CouncilRewardAddrs[ownEntry(i)]
            ownAmount(i) == IF entryOf(i) = {} THEN 0 ELSE info.CouncilStakingAmounts[ownEntry(i)]
            matched(e) == \E i \in 1..Len(vals) : e \in entryOf(i)
            goesTo(e, i) == /\ ~matched(e)
                            /\ ownReward(i) = info.CouncilRewardAddrs[e]
                            /\ \A j \in 1..(i - 1) : ownReward(j) # info.CouncilRewardAddrs[e]
            folded(i) == sumSeq([e \in entries |->
                                    IF goesTo(e, i) THEN info.CouncilStakingAmounts[e] ELSE 0])
        IN  \A i \in 1..Len(vals) :
                /\ heap[vals[i]].rewardAddress = ownReward(i)
                /\ last.stakingAmounts[i] = ownAmount(i) + folded(i)

\* C31 witness: nodes 1 and 2 stake 1 and 2 into one reward address and the
\* 4 of a contract of no validator went to the first of them only; validator
\* 3 stakes nothing and got the 16 paid into the zero address, validator 4
\* got nothing, and the 8 paid into an address of no validator were dropped.
C31_Witness ==
    /\ refreshedWithStakes
    /\ last.info \in FoldedInfos
    /\ Len(valSet.validators) = 4
    /\ last.stakingAmounts = <<5, 2, 16, 0>>
    /\ heap[valSet.validators[2]].rewardAddress = heap[valSet.validators[1]].rewardAddress
    /\ heap[valSet.validators[3]].rewardAddress = ZeroAddr

\* ValidateConsensusInfo returned a result for a block after the genesis block
validated == last.op = "ValidateConsensusInfo" /\ last.block.number > 0 /\ last.ret.returned

\* C32: ValidateConsensusInfo sets isValidSeal exactly when every address
\* recovered from the committed seals is a member of the recomputed
\* committee, in whatever order the seals are; isValidProposer exactly when
\* the header's signer is the recomputed proposer; isValidCommittee exactly
\* when the recomputed committee equals the header's validator list element
\* by element.
C32_FlagsOfValidation ==
    validated =>
        LET c         == consensusOf(heap, valSet, last.block.parentHash, last.lastProposer,
                                     last.block.round)
            committee == [i \in 1..Len(c.committee.list) |-> addressOf(heap, c.committee.list[i])]
            seals     == last.block.committedSeal
            listed    == last.block.validators
        IN  /\ last.ret.IsValidSeal <=>
                   \A i \in 1..Len(seals) : \E k \in 1..Len(committee) : seals[i] = committee[k]
            /\ last.ret.IsValidProposer <=> (last.block.signer = c.proposer)
            /\ last.ret.IsValidCommittee <=>
                   /\ Len(listed) = Len(committee)
                   /\ \A i \in 1..Len(committee) : listed[i] = committee[i]

\* C32 witness: the seals of a committee of three, in another order than the
\* committee's, were found valid on a block whose signer is not the proposer
\* and whose validator list is the committee in reverse.
C32_Witness ==
    /\ validated
    /\ Len(last.ret.Committee) = 3
    /\ last.block.committedSeal # last.ret.Committee
    /\ Len(last.block.committedSeal) = 3
    /\ last.ret.IsValidSeal
    /\ ~last.ret.IsValidProposer
    /\ ~last.ret.IsValidCommittee
    /\ Range(last.block.validators) = Range(last.ret.Committee)

\* RecoverWeightedCouncilProposer was the last call
recoverCalled == last.op = "RecoverWeightedCouncilProposer"

\* C33 (as claimed): RecoverWeightedCouncilProposer(set, addrs) completes for
\* any list of addresses and sets proposers to the sequence obtained by
\* looking up each address in validators, in order, with a null validator
\* handle at every position whose address is unknown.
C33_RecoverCompletes ==
    recoverCalled =>
        /\ last.ret = Completed
        /\ Len(valSet.proposers) = Len(last.proposerAddrs)
        /\ \A i \in 1..Len(last.proposerAddrs) :
               IF hasAddress(heap, valSet.validators, last.proposerAddrs[i])
               THEN /\ valSet.proposers[i] # Nil
                    /\ addressOf(heap, valSet.proposers[i]) = last.proposerAddrs[i]
                    /\ \E k \in 1..Len(valSet.validators) : valSet.validators[k] = valSet.proposers[i]
               ELSE valSet.proposers[i] = Nil

\* the part of C33 that holds: a call with known addresses only completes
\* and sets proposers to the validators looked up, in order
C33_RecoverKnownAddresses ==
    (recoverCalled /\ \A i \in 1..Len(last.proposerAddrs) :
                          hasAddress(heap, valSet.validators, last.proposerAddrs[i]))
    => /\ last.ret = Completed
       /\ Addresses(heap, valSet.proposers) = last.proposerAddrs
       /\ \A i \in 1..Len(valSet.proposers) :
              \E k \in 1..Len(valSet.validators) : valSet.validators[k] = valSet.proposers[i]

\* a call with an unknown address after two known ones panicked and left the
\* proposers it found
C33_PanicReached ==
    /\ recoverCalled
    /\ Len(last.proposerAddrs) >= 3
    /\ last.ret = NilDereference
    /\ Addresses(heap, valSet.proposers) = last.before

\* the value the object's storage trie holds for key, zero when it has none
\* (the trie of an object that never opened one is that of the account)
trieValue(o, key) ==
    LET trie == IF o.storageTrie # NilTrie THEN o.storageTrie[1]
                ELSE IF IsProgramAccount(o) THEN o.account.storageRoot ELSE EmptyTrie
    IN  IF key \in DOMAIN trie THEN SetBytes(Split(trie[key]).content) ELSE zeroWord

\* the calls SetState(key, _) so far
writesOf(key) ==
    {n \in 1..Len(last.calls) : last.calls[n].op = "SetState" /\ last.calls[n].args[1] = key}

\* the value key was last written with
lastWritten(key) ==
    LET n == CHOOSE w \in writesOf(key) : \A x \in writesOf(key) : x <= w
    IN  last.calls[n].args[2]

\* C34: after any sequence of GetState, SetState and CommitStorageTrie on a
\* state object whose trie operations succeed, every cached slot equals the
\* pending write for its key when there is one and the trie's value
\* otherwise; after CommitStorageTrie dirtyStorage is empty, every key last
\* written with 0 is absent from the trie and every key last written with a
\* non-zero value maps to that value.
C34_CacheIsTrieAndPending ==
    /\ \A key \in DOMAIN stateObject.cachedStorage :
           stateObject.cachedStorage[key] =
               IF key \in DOMAIN stateObject.dirtyStorage THEN stateObject.dirtyStorage[key]
               ELSE trieValue(stateObject, key)
    /\ last.op = "CommitStorageTrie" =>
           /\ DOMAIN stateObject.dirtyStorage = {}
           /\ \A key \in StorageKeys :
                  writesOf(key) # {} =>
                      IF lastWritten(key) = zeroWord
                      THEN key \notin DOMAIN stateObject.storageTrie[1]
                      ELSE /\ key \in DOMAIN stateObject.storageTrie[1]
                           /\ trieValue(stateObject, key) = lastWritten(key)

\* C34 witness: a commit took the zero written to a key of the committed
\* trie out of the trie and put the value written to another key, after a
\* first value for it, into the trie; both are cached with no write pending.
C34_Witness ==
    /\ last.op = "CommitStorageTrie"
    /\ Len(last.calls) = 4
    /\ stateObject.account.codeHash # emptyCodeHash
    /\ stateObject.account.storageRoot = stateObject.storageTrie[1]
    /\ DOMAIN stateObject.storageTrie[1] = {2}
    /\ lastWritten(1) = zeroWord
    /\ Cardinality(writesOf(2)) = 2
    /\ stateObject.cachedStorage = (1 :> zeroWord) @@ (2 :> <<0, 1>>)
    /\ stateObject.dirtyStorage = EmptyStorage

\* the object was copied and nothing was called since
justCopied == last.op = "deepCopy"

\* a call was made on the object or on its copy after the copy
calledAfterCopy == last.op \in {"SetState", "SetBalance", "SetNonce"} /\ copied # <<>>

\* at copy time the copy reads as the original and has its flags
copyReadsTheSame ==
    /\ reads(copied[1].o, db) = reads(stateObject, db)
    /\ copied[1].o.code = stateObject.code
    /\ copied[1].o.suicided = stateObject.suicided
    /\ copied[1].o.dirtyCode = stateObject.dirtyCode
    /\ copied[1].o.deleted = stateObject.deleted

\* a call on the object or its copy leaves what the other one returns
copyIsIndependent ==
    reads(IF last.target = "self" THEN copied[1].o ELSE stateObject, db) = last.kept

\* C35 (as claimed): deepCopy gives an independent object that reads the same
\* as the original: at copy time GetState returns the same value on both for
\* every key (also for keys whose write was flushed to a trie that reported
\* an error), balance, nonce, code, suicided, dirtyCode and deleted are
\* equal, and a later SetState, SetBalance or SetNonce on either object does
\* not change what the other returns.
C35_CopyReadsTheSame ==
    /\ justCopied => copyReadsTheSame
    /\ calledAfterCopy => copyIsIndependent

\* the part of C35 that holds: the same for every object no trie write of
\* which has failed
C35_CopyReadsTheSameWithoutError ==
    /\ justCopied /\ stateObject.dbErr = NilErr => copyReadsTheSame
    /\ calledAfterCopy => copyIsIndependent

\* the copy of an object whose write of a key failed reads the trie's old
\* value for the key, the object itself the value written
C35_FlushedKeyDiffers ==
    /\ justCopied
    /\ last.calls = <<"SetState", "CommitStorageTrie">>
    /\ stateObject.dbErr # NilErr
    /\ \E key \in StorageKeys :
           /\ GetState(stateObject, db, key, {}).ret = <<0, 1>>
           /\ GetState(copied[1].o, db, key, {}).ret # <<0, 1>>

\* a SubList call returned
subListReturned == last.op = "SubList" /\ last.pc = "returned"

\* C36 (as claimed): a SubList(prevHash, view) call derives its committee
\* from one consistent snapshot of the set: the proposer it uses and the
\* validators and proposers it reads belong to the same state, even when
\* CalcProposer, RemoveValidator or Refresh run in other threads, so the
\* result is what SubList gives on some single state the set passed through.
C36_SubListOfOneState ==
    subListReturned => \E i \in 1..Len(last.passed) : last.ret = last.passed[i]

\* the part of C36 that holds: with one call of another thread at most
\* between the load of the proposer and SubListWithProposer
C36_SubListOfOneStateOneCall ==
    (subListReturned /\ Len(last.passed) <= 2) =>
        \E i \in 1..Len(last.passed) : last.ret = last.passed[i]

\* SubList returned a committee led by the proposer it loaded although
\* CalcProposer and then RemoveValidator ran meanwhile: no state of the set
\* had this proposer and these validators
C36_MixedStates ==
    /\ subListReturned
    /\ Len(last.passed) = 3
    /\ last.ret.kind = "ok"
    /\ last.ret.list # <<>>
    /\ last.ret.list[1] = last.proposer
    /\ heap[valSet.proposer].address # last.proposer
    /\ Len(last.ret.list) < Len(valSet.validators)
    /\ \A i \in 1..3 : last.passed[i] # last.ret

\* IsProposer was called on the set as it is, which has a proposer
isProposerCalled == last.op = "IsProposer" /\ valSet.proposer # Nil

\* C37 (as claimed): IsProposer(a) returns true exactly when a is the
\* address of the current proposer and a is in validators, in every
\* reachable state, also after the proposer's validator was removed and
\* added again or had its weight or reward address changed.
C37_IsProposerByAddress ==
    isProposerCalled =>
        /\ last.ret.kind = "ok"
        /\ last.ret.value <=> /\ addressOf(heap, valSet.proposer) = last.address
                              /\ hasAddress(heap, valSet.validators, last.address)

\* the part of C37 that holds: IsProposer(a) returns true only for the
\* proposer's address when it is in validators, and returns true for it
\* whenever the proposer is one of the validator objects of the list
C37_IsProposerOfListedObject ==
    isProposerCalled =>
        /\ last.ret.kind = "ok"
        /\ last.ret.value => /\ addressOf(heap, valSet.proposer) = last.address
                             /\ hasAddress(heap, valSet.validators, last.address)
        /\ ( /\ addressOf(heap, valSet.proposer) = last.address
             /\ \E i \in 1..Len(valSet.validators) : valSet.validators[i] = valSet.proposer )
           => last.ret.value

\* IsProposer answered false for the proposer's address, which is in
\* validators: the validator there is a newer object with another weight
C37_StaleProposer ==
    /\ isProposerCalled
    /\ ~last.ret.value
    /\ addressOf(heap, valSet.proposer) = last.address
    /\ \E i \in 1..Len(valSet.validators) :
           /\ addressOf(heap, valSet.validators[i]) = last.address
           /\ valSet.validators[i] # valSet.proposer
           /\ heap[valSet.validators[i]].weight # heap[valSet.proposer].weight

\* SubListWithProposer was the last call
subListWithProposerCalled == last.op = "SubListWithProposer"

\* C38 (as claimed): in every reachable state of the set and for every
\* argument SubListWithProposer returns a list without faulting: it never
\* indexes a slice out of range and never dereferences a null validator,
\* also when subSize is 0, when proposers is empty while size > subSize, or
\* when the next proposer taken from proposers is no longer in validators.
C38_SubListNeverFaults ==
    subListWithProposerCalled => last.ret.kind # "panic"

\* the three faults: committee[0] of an empty committee,
C38_FaultWithSubSizeZero ==
    /\ subListWithProposerCalled
    /\ last.ret.kind = "panic"
    /\ valSet.subSize = 0
    /\ hasAddress(heap, valSet.validators, last.proposer)

\* the Address() of the nil validator the selector returns,
C38_FaultWithoutProposers ==
    /\ subListWithProposerCalled
    /\ last.ret.kind = "panic"
    /\ valSet.subSize >= 2
    /\ Len(valSet.proposers) = 0

\* and one index too many for indexs when the next proposer has index -1
C38_FaultWithStaleProposer ==
    /\ subListWithProposerCalled
    /\ last.ret.kind = "panic"
    /\ valSet.subSize >= 2
    /\ Len(valSet.proposers) > 0
    /\ \E i \in 1..Len(valSet.proposers) :
           ~hasAddress(heap, valSet.validators, addressOf(heap, valSet.proposers[i]))

\* the part of C38 that holds: no fault on a set with subSize >= 1 whose
\* proposers are validators of the list and not empty
C38_NoFaultOnWellFormedSet ==
    ( /\ subListWithProposerCalled
      /\ valSet.subSize >= 1
      /\ Len(valSet.proposers) > 0
      /\ \A i \in 1..Len(valSet.proposers) :
             hasAddress(heap, valSet.validators, addressOf(heap, valSet.proposers[i])) )
    => last.ret.kind # "panic"

\* the last call was a Refresh that returned an error
refreshFailed == last.op = "Refresh" /\ last.ret \in {ErrNoValidator, ErrSkipRefresh}

\* C39 (as claimed): a Refresh that returns an error (no validator,
\* unparsable hash, or no staking info) leaves the whole set unchanged,
\* including stakingInfo, which keeps the last staking snapshot that was
\* actually observed.
C39_FailedRefreshChangesNothing ==
    refreshFailed =>
        /\ observed(heap, valSet) = last.before
        /\ valSet.stakingInfo = last.info

\* the part of C39 that holds: validators, proposers, proposer,
\* proposersBlockNum, weights and reward addresses are left; stakingInfo is
\* left by the no-validator error and is nil after the skip-refresh error
C39_FailedRefreshDropsStakingInfo ==
    refreshFailed =>
        /\ observed(heap, valSet) = last.before
        /\ valSet.stakingInfo = IF last.ret = ErrNoValidator THEN last.info ELSE NoStakingInfo

\* a set that had observed a staking information has none after a Refresh
\* that found none
C39_StakingInfoLost ==
    /\ refreshFailed
    /\ last.ret = ErrSkipRefresh
    /\ ~last.info.isNil
    /\ Len(last.info.CouncilNodeAddrs) > 0
    /\ valSet.stakingInfo = NoStakingInfo


\* C40 (as claimed): a set whose proposers all have the address of one of its
\* validators, exported with GetWeightedCouncilData, built anew with
\* NewWeightedCouncil and recovered with RecoverWeightedCouncilProposer from
\* the exported proposer addresses, is a set that exports the same
\* validators, reward addresses, voting powers, weights, proposers and
\* proposersBlockNum.
roundTripDone == last.op = "SnapshotRoundTrip"

proposersAreMembers(h, s) ==
    \A i \in 1..Len(s.proposers) : hasAddress(h, s.validators, addressOf(h, s.proposers[i]))

C40_RoundTripExportsTheSame ==
    (roundTripDone /\ proposersAreMembers(heap, valSet)) =>
        /\ last.ret = Completed
        /\ GetWeightedCouncilData(heap, other) = last.data

\* C40 (the part that holds): so it is when the validators of the set are in
\* the order of their addresses; in any case the new set has the same
\* validators with the same reward address, voting power and weight each, in
\* the order of their addresses, the same proposers and proposersBlockNum.
sortedByAddress(h, list) ==
    \A i \in 1..(Len(list) - 1) : addressOf(h, list[i]) <= addressOf(h, list[i + 1])

sameBag(a, b) ==
    \A x \in Range(a) \cup Range(b) :
        Cardinality({i \in 1..Len(a) : a[i] = x}) = Cardinality({i \in 1..Len(b) : b[i] = x})

C40_RoundTripOfSortedValidators ==
    (roundTripDone /\ proposersAreMembers(heap, valSet)) =>
        /\ last.ret = Completed
        /\ sortedByAddress(heap, other.validators)
        /\ sameBag(observed(heap, other).validators, observed(heap, valSet).validators)
        /\ GetWeightedCouncilData(heap, other).proposers = last.data.proposers
        /\ other.proposersBlockNum = last.data.proposersBlockNum
        /\ sortedByAddress(heap, valSet.validators) =>
               GetWeightedCouncilData(heap, other) = last.data

\* C40 (reached): after ReplaceValidators put the validators out of the
\* order of their addresses, the rebuilt set exports them in another order
C40_ValidatorsReordered ==
    /\ roundTripDone
    /\ proposersAreMembers(heap, valSet)
    /\ last.ret = Completed
    /\ ~sortedByAddress(heap, valSet.validators)
    /\ GetWeightedCouncilData(heap, other).validators # last.data.validators

\* C40 (reached): a set with weights, reward addresses and proposers in
\* another order than its validators comes back from the round trip
C40_WeightedSetComesBack ==
    /\ roundTripDone
    /\ last.ret = Completed
    /\ Len(valSet.validators) > 1
    /\ last.data.proposers # last.data.validators
    /\ \E i \in 1..Len(last.data.weights) : last.data.weights[i] > 0
    /\ \E i \in 1..Len(last.data.rewardAddrs) : last.data.rewardAddrs[i] # ZeroAddr
    /\ GetWeightedCouncilData(heap, other) = last.data

====
